---- MODULE Spec2Model ----
(***************************************************************************)
(* sm2pspp: in-place conversion of a PrusaSlicer G-code file into a        *)
(* Snapmaker 2.0 terminal compatible file (src/src/sm2pspp.c).             *)
(*                                                                         *)
(* The file is a sequence of bytes, each byte a one-character string.      *)
(* Pointers into the input buffer are 1-based indices, NULL is 0.          *)
(* A float is a record: NaN, +/-infinity, or a number kept in fixed point  *)
(* (thousandths); negative zero is not distinguished from zero.            *)
(***************************************************************************)
EXTENDS Integers, Sequences, FiniteSets, TLC

(* ------------------------------ bounds -------------------------------- *)
\* longest input built from the geometry lines
MaxGeomLines == 3
\* longest input built from the metadata lines
MaxMetaLines == 2
\* number of processFile() calls made on the same file
MaxCalls == 2
\* longest token handed to a micro-parser on its own
MaxTokLen == 3

(* --------------------------- characters ------------------------------- *)
NULL == 0

Digits == {"0", "1", "2", "3", "4", "5", "6", "7", "8", "9"}

DigitVal(ch) ==
    CASE ch = "0" -> 0 [] ch = "1" -> 1 [] ch = "2" -> 2 [] ch = "3" -> 3
      [] ch = "4" -> 4 [] ch = "5" -> 5 [] ch = "6" -> 6 [] ch = "7" -> 7
      [] ch = "8" -> 8 [] ch = "9" -> 9

isdigit(ch) == ch \in Digits

isspace(ch) == ch \in {" ", "\t", "\n", "\r"}

Lower ==
    {"a", "b", "c", "d", "e", "f", "g", "h", "i", "j", "k", "l", "m",
     "n", "o", "p", "q", "r", "s", "t", "u", "v", "w", "x", "y", "z"}

Upper ==
    {"A", "B", "C", "D", "E", "F", "G", "H", "I", "J", "K", "L", "M",
     "N", "O", "P", "Q", "R", "S", "T", "U", "V", "W", "X", "Y", "Z"}

\* the characters copied into the thumbnail header line
IsBase64(ch) == ch \in Digits \cup Lower \cup Upper \cup {"+", "/", "="}

(* ------------------------- marker and key text ------------------------ *)
MARK_POST_PROCESSED ==
    <<"p", "o", "s", "t", "-", "p", "r", "o", "c", "e", "s", "s", "e", "d", " ", "b", "y", " ",
    "s", "m", "2", "p", "s", "p", "p">>
MARK_THUMBNAIL_BEGIN ==
    <<"t", "h", "u", "m", "b", "n", "a", "i", "l", " ", "b", "e", "g", "i", "n">>
MARK_THUMBNAIL_END ==
    <<"t", "h", "u", "m", "b", "n", "a", "i", "l", " ", "e", "n", "d">>
MARK_LAYER_CHANGE ==
    <<"L", "A", "Y", "E", "R", "_", "C", "H", "A", "N", "G", "E">>
KEY_FILAMENT_USED ==
    <<"f", "i", "l", "a", "m", "e", "n", "t", " ", "u", "s", "e", "d", " ", "[", "m", "m", "]">>
KEY_FIRST_LAYER_HEIGHT ==
    <<"f", "i", "r", "s", "t", "_", "l", "a", "y", "e", "r", "_", "h", "e", "i", "g", "h", "t">>
KEY_LAYER_HEIGHT ==
    <<"l", "a", "y", "e", "r", "_", "h", "e", "i", "g", "h", "t">>
KEY_EST_TIME ==
    <<"e", "s", "t", "i", "m", "a", "t", "e", "d", " ", "p", "r", "i", "n", "t", "i", "n", "g",
    " ", "t", "i", "m", "e">>
KEY_NOZZLE_TEMP ==
    <<"f", "i", "r", "s", "t", "_", "l", "a", "y", "e", "r", "_", "t", "e", "m", "p", "e", "r",
    "a", "t", "u", "r", "e">>
KEY_PLATE_TEMP ==
    <<"f", "i", "r", "s", "t", "_", "l", "a", "y", "e", "r", "_", "b", "e", "d", "_", "t", "e",
    "m", "p", "e", "r", "a", "t", "u", "r", "e">>
KEY_PRINT_SPEED ==
    <<"m", "a", "x", "_", "p", "r", "i", "n", "t", "_", "s", "p", "e", "e", "d">>

\* PROGRAM_VERSION_STR and the project address of the first header line
PROGRAM_VERSION_STR == <<"1", ".", "0">>

(* ------------------------------ tokens -------------------------------- *)
\* tPToken: a view (start, length) into the input buffer; {0} is the empty view
NoToken == [start |-> NULL, length |-> 0]

TokText(buf, tok) ==
    IF tok.start = NULL \/ tok.length <= 0
    THEN <<>>
    ELSE SubSeq(buf, tok.start, tok.start + tok.length - 1)

\* p_cmpToken: 0 if the token's text is rhs, nonzero otherwise (as strcmp)
p_cmpToken(buf, tok, rhs) == IF TokText(buf, tok) = rhs THEN 0 ELSE 1

Min2(a, b) == IF a < b THEN a ELSE b

p_cmpTokenStart(buf, lhs, rhs) ==
    p_cmpToken(buf,
               [start |-> lhs.start, length |-> Min2(lhs.length, Len(rhs))],
               rhs)

(* ------------------------------ floats -------------------------------- *)
\* fixed-point scale of a finite float: thousandths
Scale == 1000

NAN == [k |-> "nan", v |-> 0]
PINF == [k |-> "inf", v |-> 1]
NINF == [k |-> "inf", v |-> -1]
F(v) == [k |-> "num", v |-> v]

IS_SET(num) == num.k # "nan"

IsInf(a) == a.k = "inf"

\* a < b; every comparison with NaN is false
FLt(a, b) ==
    /\ a.k # "nan"
    /\ b.k # "nan"
    /\ IF a.k = "inf" THEN a.v = -1 /\ b # NINF
       ELSE IF b.k = "inf" THEN b.v = 1
       ELSE a.v < b.v

FGt(a, b) == FLt(b, a)

FLe(a, b) == a.k # "nan" /\ b.k # "nan" /\ ~FLt(b, a)

FNeg(a) == IF a.k = "nan" THEN NAN ELSE [k |-> a.k, v |-> 0 - a.v]

FAdd(a, b) ==
    IF a.k = "nan" \/ b.k = "nan" THEN NAN
    ELSE IF a.k = "inf" THEN (IF b.k = "inf" /\ b.v # a.v THEN NAN ELSE a)
    ELSE IF b.k = "inf" THEN b
    ELSE F(a.v + b.v)

FSub(a, b) == FAdd(a, FNeg(b))

(* --------------------------- micro-parsers ---------------------------- *)
\* p_dtmsLoop with val kept after a unit letter
RECURSIVE p_dtmsLoopNoReset(_, _, _, _)
p_dtmsLoopNoReset(s, i, res, val) ==
    IF i > Len(s) THEN res
    ELSE LET ch == s[i] IN
         IF isdigit(ch) THEN p_dtmsLoopNoReset(s, i + 1, res, (val * 10) + DigitVal(ch))
         ELSE IF ch = "d" THEN p_dtmsLoopNoReset(s, i + 1, res + (val * 86400), val)
         ELSE IF ch = "h" THEN p_dtmsLoopNoReset(s, i + 1, res + (val * 3600), val)
         ELSE IF ch = "m" THEN p_dtmsLoopNoReset(s, i + 1, res + (val * 60), val)
         ELSE IF ch = "s" THEN p_dtmsLoopNoReset(s, i + 1, res + val, val)
         ELSE p_dtmsLoopNoReset(s, i + 1, res, val)

\* p_dtms: the loop over the token's characters, with its res and val
RECURSIVE p_dtmsLoop(_, _, _, _)
p_dtmsLoop(s, i, res, val) ==
    IF i > Len(s) THEN res
    ELSE LET ch == s[i] IN
         IF isdigit(ch) THEN p_dtmsLoop(s, i + 1, res, (val * 10) + DigitVal(ch))
         ELSE IF ch = "d" THEN p_dtmsLoop(s, i + 1, res + (val * 86400), 0)
         ELSE IF ch = "h" THEN p_dtmsLoop(s, i + 1, res + (val * 3600), 0)
         ELSE IF ch = "m" THEN p_dtmsLoop(s, i + 1, res + (val * 60), 0)
         ELSE IF ch = "s" THEN p_dtmsLoop(s, i + 1, res + val, 0)
         ELSE p_dtmsLoop(s, i + 1, res, val)

p_dtms(buf, aTok) ==
    IF aTok.start = NULL \/ aTok.length <= 0 THEN 0
    ELSE p_dtmsLoop(TokText(buf, aTok), 1, 0, 0)

\* p_uint: leading digits only
RECURSIVE p_uintLoop(_, _, _)
p_uintLoop(s, i, val) ==
    IF i > Len(s) THEN val
    ELSE IF isdigit(s[i]) THEN p_uintLoop(s, i + 1, (val * 10) + DigitVal(s[i]))
    ELSE val

p_uint(buf, aTok) ==
    IF aTok.start = NULL \/ aTok.length <= 0 THEN 0
    ELSE p_uintLoop(TokText(buf, aTok), 1, 0)

\* p_floatLoop with a second '.' taken as the end of the number
RECURSIVE p_floatLoopOneDot(_, _, _, _, _, _)
p_floatLoopOneDot(s, i, val, frac, fracDiv, isFrac) ==
    IF i > Len(s) THEN <<val, frac, fracDiv>>
    ELSE LET ch == s[i] IN
         IF isdigit(ch)
         THEN IF isFrac = 0
              THEN p_floatLoopOneDot(s, i + 1, (val * 10) + DigitVal(ch), frac, fracDiv, isFrac)
              ELSE p_floatLoopOneDot(s, i + 1, val, (frac * 10) + DigitVal(ch), fracDiv * 10,
                                     isFrac)
         ELSE IF ch = "." /\ isFrac = 0 THEN p_floatLoopOneDot(s, i + 1, val, frac, fracDiv, 1)
         ELSE <<val, frac, fracDiv>>

\* p_float: the loop; the result is <<val, frac, fracDiv>>
RECURSIVE p_floatLoop(_, _, _, _, _, _)
p_floatLoop(s, i, val, frac, fracDiv, isFrac) ==
    IF i > Len(s) THEN <<val, frac, fracDiv>>
    ELSE LET ch == s[i] IN
         IF isdigit(ch)
         THEN IF isFrac = 0
              THEN p_floatLoop(s, i + 1, (val * 10) + DigitVal(ch), frac, fracDiv, isFrac)
              ELSE p_floatLoop(s, i + 1, val, (frac * 10) + DigitVal(ch), fracDiv * 10, isFrac)
         ELSE IF ch = "." THEN p_floatLoop(s, i + 1, val, frac, fracDiv, 1)
         ELSE <<val, frac, fracDiv>>

p_float(buf, aTok) ==
    IF aTok.start = NULL \/ aTok.length <= 0 THEN F(0)
    ELSE LET s == TokText(buf, aTok)
             neg == s[1] = "-"
             r == p_floatLoop(s, IF neg THEN 2 ELSE 1, 0, 0, 1, 0)
             mag == (r[1] * Scale) + ((r[2] * Scale) \div r[3])
         IN  F(IF neg THEN 0 - mag ELSE mag)

(* --------------------------- command codes ---------------------------- *)
\* bitwise or of two values below 2^n
RECURSIVE BitOr(_, _, _)
BitOr(a, b, n) ==
    IF n = 0 THEN 0
    ELSE (IF (a % 2) = 1 \/ (b % 2) = 1 THEN 1 ELSE 0)
         + (2 * BitOr(a \div 2, b \div 2, n - 1))

\* 'G' as a character code
CharG == 71

\* GCODE(type, num): an unsigned 32 bit value, kept as <<high 16 bits, low 16 bits>>
GCODE(type, num) == <<BitOr(type % 65536, (num \div 65536) % 65536, 16), num % 65536>>

\* (unsigned int)-1
CodeNone == <<65535, 65535>>

(* ------------------------------- state -------------------------------- *)
Axes == {"X", "Y", "Z"}
Params == {"X", "Y", "Z", "E"}

SlotNames ==
    {"filamentUsed", "firstLayerHeight", "layerHeight", "estTime", "nozzleTemp0",
     "nozzleTemp1", "plateTemp", "printSpeed", "thumbnail"}

VARIABLES
    file,               \* the bytes of the file on disk
    featRemove,         \* the build defines FEATURE_REMOVE_ORIG_THUMBNAIL
    calls,              \* processFile() calls started so far
    pc,                 \* where the running call is; "idle"/"done" between calls
    wi,                 \* the next of the seven missing-token checks
    res, prevExt, isAbsPos, hasLayerChange, hasThumbnail, code,
    par,                \* paramX, paramY, paramZ, paramE
    pos,                \* x, y, z
    bmin, bmax,         \* minX, minY, minZ and maxX, maxY, maxZ
    lineNr, bufAlloc, inputBuf, inputLen, fp,
    origThumbnailLines, origThumbnail,
    slot,               \* filamentUsed ... thumbnail
    aToken, valueToken, lineStart, state, param,
    it,                 \* the loop's position in inputBuf
    nozzleTemp1Val,
    ub,                 \* the call ran into undefined behaviour
    cbLog,              \* the messages the callback got in this call
    file0,              \* history: the file when the call started
    wopened,            \* history: the call opened the file for writing
    prev,               \* history: result of the call before this one
    visited,            \* history: set coordinates of extruding moves since the reset
    fillLine,           \* history: the line on which each slot got its start
    keyLine,            \* history: the line of the first "=" that matched each key
    hasExt,             \* history: a linear move with a positive E was dispatched
    hdrOut,             \* history: the header as it was written
    ioLog,              \* history: fopen, fclose, malloc, free and failed calls of this call
    mpTok, mpOut        \* a token given to a micro-parser alone, and the result

envVars == <<featRemove, mpTok, mpOut>>
callVars == <<calls, file0, prev>>
geoVars == <<prevExt, isAbsPos, code, par, pos, bmin, bmax, visited, hasExt>>
metaVars == <<slot, valueToken, origThumbnailLines, origThumbnail, fillLine, keyLine>>
ioVars == <<file, pc, wi, res, bufAlloc, inputBuf, inputLen, fp, cbLog, wopened, ub, ioLog>>
lexVars == <<hasLayerChange, aToken, lineStart, lineNr, state, param, it>>
outVars == <<hasThumbnail, nozzleTemp1Val, hdrOut>>

vars == <<envVars, callVars, geoVars, metaVars, ioVars, lexVars, outVars>>

Sentinel(v) == [a \in Axes |-> v]

(* ---------------------------- the callback ---------------------------- *)
\* what the callback may return: 1 is "continue"
CbReturns == {1, 0, -1}

\* cb(msg, file, lineNr) was called at pc and returned ret
Told(msg, r) == [msg |-> msg, ret |-> r, at |-> pc]

(* ------------------------- processFile: entry ------------------------- *)
NoSlots == [n \in SlotNames |-> NoToken]
NoFill == [n \in SlotNames |-> 0]
NoParams == [a \in Params |-> NAN]
NoPos == [a \in Axes |-> NAN]

LocalsInit ==
    /\ res = 0 /\ prevExt = 0 /\ isAbsPos = 1 /\ hasLayerChange = 0
    /\ hasThumbnail = 0 /\ code = CodeNone
    /\ par = NoParams /\ pos = NoPos
    /\ bmin = Sentinel(PINF) /\ bmax = Sentinel(NINF)
    /\ lineNr = 1 /\ bufAlloc = FALSE /\ inputBuf = <<>> /\ inputLen = 0
    /\ fp = "NULL"
    /\ origThumbnailLines = 0 /\ origThumbnail = NoToken
    /\ slot = NoSlots /\ aToken = NoToken /\ valueToken = "NULL"
    /\ lineStart = NULL /\ state = "ST_LINE_START" /\ param = "P_UNKNOWN"
    /\ it = 1 /\ nozzleTemp1Val = F(0) /\ wi = 1
    /\ ub = FALSE /\ cbLog = <<>> /\ wopened = FALSE
    /\ visited = {} /\ fillLine = NoFill /\ keyLine = NoFill
    /\ hasExt = FALSE /\ hdrOut = <<>> /\ ioLog = <<>>

\* processFile(file, cb) is entered: the declarations of its locals
Call ==
    /\ pc \in {"idle", "done"}
    /\ calls < MaxCalls
    /\ calls' = calls + 1
    /\ file0' = file
    /\ prev' = [res |-> res, wopened |-> wopened, ran |-> calls > 0]
    /\ pc' = "open"
    /\ res' = 0 /\ prevExt' = 0 /\ isAbsPos' = 1 /\ hasLayerChange' = 0
    /\ hasThumbnail' = 0 /\ code' = CodeNone
    /\ par' = NoParams /\ pos' = NoPos
    /\ bmin' = Sentinel(PINF) /\ bmax' = Sentinel(NINF)
    /\ lineNr' = 1 /\ bufAlloc' = FALSE /\ inputBuf' = <<>> /\ inputLen' = 0
    /\ fp' = "NULL"
    /\ origThumbnailLines' = 0 /\ origThumbnail' = NoToken
    /\ slot' = NoSlots /\ aToken' = NoToken /\ valueToken' = "NULL"
    /\ lineStart' = NULL /\ state' = "ST_LINE_START" /\ param' = "P_UNKNOWN"
    /\ it' = 1 /\ nozzleTemp1Val' = F(0) /\ wi' = 1
    /\ ub' = FALSE /\ cbLog' = <<>> /\ wopened' = FALSE
    /\ visited' = {} /\ fillLine' = NoFill /\ keyLine' = NoFill
    /\ hasExt' = FALSE /\ hdrOut' = <<>> /\ ioLog' = <<>>
    /\ UNCHANGED <<file, envVars>>

\* Return that never reaches the label onSuccess: res stays 0
ReturnFailure(r) ==
    /\ res' = 0
    /\ fp' = "NULL"
    /\ bufAlloc' = FALSE
    /\ inputBuf' = <<>>
    /\ pc' = "done"

\* onSuccess / onError: set res, close fp if open, free inputBuf, return
Return(r) ==
    /\ res' = r
    /\ fp' = "NULL"
    /\ bufAlloc' = FALSE
    /\ inputBuf' = <<>>
    /\ pc' = "done"

\* Release that leaves the buffer alone
ReleaseNoFree(f, b) == IF f # "NULL" THEN <<"fclose">> ELSE <<>>

\* onError: if (fp != NULL) fclose(fp); if (inputBuf != NULL) free(inputBuf);
Release(f, b) ==
    (IF f # "NULL" THEN <<"fclose">> ELSE <<>>) \o (IF b THEN <<"free">> ELSE <<>>)

\* the library calls ev of the step are logged, then those of onError with fp = f
OnError(ev, f) == ioLog' = ioLog \o ev \o Release(f, bufAlloc)

\* ON_ERROR(msg): the callback is told, its answer is dropped, res stays 0
ON_ERROR(msg) ==
    /\ \E r \in CbReturns : cbLog' = Append(cbLog, Told(msg, r))
    /\ Return(res)

\* fopen(file, "rb"), then the size of the file; an empty file is a success
OpenInput ==
    /\ pc = "open"
    /\ \/ /\ ON_ERROR("MSGT_ERR_FILE_OPEN")
          /\ OnError(<<"fault">>, fp)
          /\ UNCHANGED <<inputLen>>
       \/ /\ inputLen' = Len(file)
          /\ IF Len(file) < 1
             THEN Return(1) /\ OnError(<<"fopen">>, "rb")
             ELSE /\ fp' = "rb"
                  /\ ioLog' = Append(ioLog, "fopen")
                  /\ pc' = "alloc"
                  /\ UNCHANGED <<res, bufAlloc, inputBuf>>
          /\ UNCHANGED cbLog
    /\ UNCHANGED <<file, wi, wopened, ub>>
    /\ UNCHANGED <<envVars, callVars, geoVars, metaVars, lexVars, outVars>>

\* malloc(inputLen)
AllocBuffer ==
    /\ pc = "alloc"
    /\ \/ /\ ON_ERROR("MSGT_ERR_NO_MEM")
          /\ OnError(<<"fault">>, fp)
       \/ /\ bufAlloc' = TRUE
          /\ ioLog' = Append(ioLog, "malloc")
          /\ pc' = "read"
          /\ UNCHANGED <<res, fp, inputBuf, cbLog>>
    /\ UNCHANGED <<file, wi, inputLen, wopened, ub>>
    /\ UNCHANGED <<envVars, callVars, geoVars, metaVars, lexVars, outVars>>

\* fread, fclose, and the start of the loop (lineStart = inputBuf, it = inputBuf)
ReadInput ==
    /\ pc = "read"
    /\ \/ /\ ON_ERROR("MSGT_ERR_FILE_READ")
          /\ OnError(<<"fault">>, fp)
          /\ UNCHANGED <<lineStart, it>>
       \/ /\ inputBuf' = file
          /\ fp' = "NULL"
          /\ ioLog' = Append(ioLog, "fclose")
          /\ lineStart' = 1
          /\ it' = 1
          /\ pc' = "lex"
          /\ UNCHANGED <<res, bufAlloc, cbLog>>
    /\ UNCHANGED <<file, wi, inputLen, wopened, ub>>
    /\ UNCHANGED <<hasLayerChange, aToken, lineNr, state, param>>
    /\ UNCHANGED <<envVars, callVars, geoVars, metaVars, outVars>>

(* ------------------------ processFile: the pass ----------------------- *)
ch == inputBuf[it]

LexAt(st) == pc = "lex" /\ it <= inputLen /\ state = st

\* Advance that passes over the byte after the one read
AdvanceTwo ==
    /\ it' = it + 2
    /\ lineNr' = IF ch = "\n" THEN lineNr + 1 ELSE lineNr
    /\ lineStart' = IF ch = "\n" \/ ch = "\r" THEN it + 1 ELSE lineStart

\* the end of the loop body: the line counter, the line start, it++
Advance ==
    /\ it' = it + 1
    /\ lineNr' = IF ch = "\n" THEN lineNr + 1 ELSE lineNr
    /\ lineStart' = IF ch = "\n" \/ ch = "\r" THEN it + 1 ELSE lineStart

BeginToken == [start |-> it + 1, length |-> 0]

\* case ST_LINE_START
LexLineStart ==
    /\ LexAt("ST_LINE_START")
    /\ IF ch = ";"
       THEN aToken' = NoToken /\ state' = "ST_COMMENT" /\ UNCHANGED <<param, par>>
       ELSE IF ch = "G"
       THEN /\ param' = "P_G"
            /\ par' = NoParams
            /\ aToken' = BeginToken
            /\ state' = "ST_GCODE"
       ELSE IF ~isspace(ch)
       THEN state' = "ST_FIND_LINE_START" /\ UNCHANGED <<param, par, aToken>>
       ELSE UNCHANGED <<param, par, aToken, state>>
    /\ Advance
    /\ UNCHANGED <<prevExt, isAbsPos, code, pos, bmin, bmax, visited, hasExt, hasLayerChange>>
    /\ UNCHANGED <<envVars, callVars, metaVars, ioVars, outVars>>

\* case ST_FIND_LINE_START
LexFindLineStart ==
    /\ LexAt("ST_FIND_LINE_START")
    /\ state' = IF ch = "\n" THEN "ST_LINE_START" ELSE state
    /\ Advance
    /\ UNCHANGED <<hasLayerChange, aToken, param>>
    /\ UNCHANGED <<envVars, callVars, geoVars, metaVars, ioVars, outVars>>

\* the axis a parameter letter stands for
ParamOf(c) == CASE c = "X" -> "P_X" [] c = "Y" -> "P_Y" [] c = "Z" -> "P_Z" [] c = "E" -> "P_E"
LetterOf(p) == CASE p = "P_X" -> "X" [] p = "P_Y" -> "Y" [] p = "P_Z" -> "Z" [] p = "P_E" -> "E"

\* WidenMin without the comparison: the bound follows the position
WidenMinAlways(b, q, s) == [a \in Axes |-> IF a \in s THEN q[a] ELSE b[a]]

\* fold position q into one bound of the box, on the axes in s
WidenMin(b, q, s) == [a \in Axes |-> IF a \in s /\ FGt(b[a], q[a]) THEN q[a] ELSE b[a]]
\* WidenMax that leaves the bound as it is
WidenMaxNever(b, q, s) == b

\* WidenMax with the comparison of WidenMin
WidenMaxInverted(b, q, s) == [a \in Axes |-> IF a \in s /\ FGt(b[a], q[a]) THEN q[a] ELSE b[a]]
WidenMax(b, q, s) == [a \in Axes |-> IF a \in s /\ FLt(b[a], q[a]) THEN q[a] ELSE b[a]]

SetCoords(q) == {<<a, q[a]>> : a \in {b \in Axes : IS_SET(q[b])}}

\* case GCODE('G', 0), GCODE('G', 1): the linear move with parameters p
LinearMove(p) ==
    LET ext == IS_SET(p["E"]) /\ FGt(p["E"], F(0))
        before == IF ext /\ prevExt = 0 THEN {a \in Axes : IS_SET(pos[a])} ELSE {}
        min1 == WidenMin(bmin, pos, before)
        max1 == WidenMax(bmax, pos, before)
        pos1 == [a \in Axes |->
                   IF IS_SET(p[a])
                   THEN (IF isAbsPos # 0 THEN p[a] ELSE FAdd(pos[a], p[a]))
                   ELSE pos[a]]
        after == IF ext THEN {a \in Axes : IS_SET(p[a])} ELSE {}
    IN  [pos |-> pos1,
         bmin |-> WidenMin(min1, pos1, after),
         bmax |-> WidenMax(max1, pos1, after),
         prevExt |-> IF ext THEN 1 ELSE 0,
         isAbsPos |-> isAbsPos,
         visited |-> IF ext THEN visited \cup SetCoords(pos) \cup SetCoords(pos1)
                     ELSE visited,
         hasExt |-> hasExt \/ ext]

\* switch (code) at the end of a G line
Dispatch(c, p) ==
    IF c = GCODE(CharG, 0) \/ c = GCODE(CharG, 1) THEN LinearMove(p)
    ELSE [pos |-> pos, bmin |-> bmin, bmax |-> bmax, prevExt |-> prevExt,
          isAbsPos |-> IF c = GCODE(CharG, 90) THEN 1
                       ELSE IF c = GCODE(CharG, 91) THEN 0
                       ELSE isAbsPos,
          visited |-> visited, hasExt |-> hasExt]

\* case ST_GCODE
LexGcode ==
    /\ LexAt("ST_GCODE")
    /\ IF isdigit(ch) \/ (param # "P_G" /\ (ch = "." \/ (aToken.length = 0 /\ ch = "-")))
       THEN /\ aToken' = [aToken EXCEPT !.length = @ + 1]
            /\ UNCHANGED <<param, state, geoVars>>
       ELSE IF ch \in {"X", "Y", "Z", "E"}
       THEN /\ param' = ParamOf(ch)
            /\ aToken' = BeginToken
            /\ UNCHANGED <<state, geoVars>>
       ELSE LET code1 == IF param = "P_G" THEN GCODE(CharG, p_uint(inputBuf, aToken))
                         ELSE code
                par1 == IF param \in {"P_X", "P_Y", "P_Z", "P_E"}
                        THEN [par EXCEPT ![LetterOf(param)] = p_float(inputBuf, aToken)]
                        ELSE par
                d == Dispatch(code1, par1)
            IN  /\ code' = code1
                /\ par' = par1
                /\ param' = "P_UNKNOWN"
                /\ IF ch = "\n" \/ ch = ";"
                   THEN /\ pos' = d.pos /\ bmin' = d.bmin /\ bmax' = d.bmax
                        /\ prevExt' = d.prevExt /\ isAbsPos' = d.isAbsPos
                        /\ visited' = d.visited /\ hasExt' = d.hasExt
                        /\ state' = IF ch = "\n" THEN "ST_LINE_START" ELSE "ST_COMMENT"
                        /\ aToken' = IF ch = "\n" THEN aToken ELSE NoToken
                   ELSE UNCHANGED <<pos, bmin, bmax, prevExt, isAbsPos, visited, hasExt, state, aToken>>
    /\ Advance
    /\ UNCHANGED hasLayerChange
    /\ UNCHANGED <<envVars, callVars, metaVars, ioVars, outVars>>

\* the chain of p_cmpToken calls on a key: the slot it selects, or "NULL"
MatchKey(tok) ==
    IF p_cmpToken(inputBuf, tok, KEY_FILAMENT_USED) = 0 THEN "filamentUsed"
    ELSE IF p_cmpToken(inputBuf, tok, KEY_FIRST_LAYER_HEIGHT) = 0 THEN "firstLayerHeight"
    ELSE IF p_cmpToken(inputBuf, tok, KEY_LAYER_HEIGHT) = 0 THEN "layerHeight"
    ELSE IF p_cmpTokenStart(inputBuf, tok, KEY_EST_TIME) = 0 THEN "estTime"
    ELSE IF p_cmpToken(inputBuf, tok, KEY_NOZZLE_TEMP) = 0 THEN "nozzleTemp0"
    ELSE IF p_cmpToken(inputBuf, tok, KEY_PLATE_TEMP) = 0 THEN "plateTemp"
    ELSE IF p_cmpToken(inputBuf, tok, KEY_PRINT_SPEED) = 0 THEN "printSpeed"
    ELSE "NULL"

\* a slot given first_layer_temperature also stands for its second value
KeySlots(n) == IF n = "nozzleTemp0" THEN {"nozzleTemp0", "nozzleTemp1"} ELSE {n}

\* IsPostProcessed with the marker compared at the end of the line, not at a space
IsPostProcessedAtLineEnd ==
    /\ ch = "\n"
    /\ aToken.start # NULL
    /\ aToken.length > 0
    /\ p_cmpToken(inputBuf, aToken, MARK_POST_PROCESSED) = 0

\* the comment's first words are the marker of an already converted file
IsPostProcessed ==
    /\ ch # "\n"
    /\ aToken.start # NULL
    /\ ch = " " /\ aToken.length > 0
    /\ p_cmpToken(inputBuf, aToken, MARK_POST_PROCESSED) = 0

\* case ST_COMMENT, "goto onSuccess"
LexCommentPostProcessed ==
    /\ LexAt("ST_COMMENT")
    /\ IsPostProcessed
    /\ Return(1)
    /\ OnError(<<>>, fp)
    /\ UNCHANGED <<file, wi, inputLen, cbLog, wopened, ub>>
    /\ UNCHANGED <<envVars, callVars, geoVars, metaVars, lexVars, outVars>>

\* SlotIsFree without the test: every line with the key captures
SlotIsFreeAlways(n) == n \in SlotNames

\* if (valueToken->start == NULL): no value has been captured for the key yet
SlotIsFree(n) == slot[n].start = NULL

\* case ST_COMMENT, '=': the end of a commented parameter key
CommentKey ==
    LET key == IF aToken.length = 0
               THEN [aToken EXCEPT !.length = it - aToken.start]
               ELSE aToken
        m == MatchKey(key)
        vt == IF m # "NULL" THEN m ELSE valueToken
    IN  /\ keyLine' = [n \in SlotNames |->
                         IF m # "NULL" /\ n \in KeySlots(m) /\ keyLine[n] = 0
                         THEN lineNr ELSE keyLine[n]]
        /\ IF vt # "NULL"
           THEN /\ aToken' = NoToken
                /\ IF SlotIsFree(vt)
                   THEN valueToken' = vt /\ state' = "ST_PARAMETER_VALUE"
                   ELSE valueToken' = "NULL" /\ state' = "ST_FIND_LINE_START"
           ELSE /\ aToken' = key
                /\ valueToken' = vt
                /\ state' = "ST_FIND_LINE_START"

\* case ST_COMMENT
LexComment ==
    /\ LexAt("ST_COMMENT")
    /\ ~IsPostProcessed
    /\ IF ch = "\n"
       THEN /\ state' = "ST_LINE_START"
            /\ IF p_cmpToken(inputBuf, aToken, MARK_LAYER_CHANGE) = 0 /\ hasLayerChange = 0
               THEN /\ hasLayerChange' = 1
                    /\ bmin' = Sentinel(PINF)
                    /\ bmax' = Sentinel(NINF)
                    /\ visited' = {}
               ELSE UNCHANGED <<hasLayerChange, bmin, bmax, visited>>
            /\ UNCHANGED <<aToken, metaVars>>
       ELSE /\ UNCHANGED <<hasLayerChange, bmin, bmax, visited>>
            /\ IF aToken.start = NULL
               THEN /\ aToken' = IF ~isspace(ch) THEN [start |-> it, length |-> 1] ELSE aToken
                    /\ UNCHANGED <<state, metaVars>>
               ELSE IF ch = " " /\ aToken.length > 0
               THEN IF p_cmpToken(inputBuf, aToken, MARK_THUMBNAIL_BEGIN) = 0
                    THEN /\ IF featRemove /\ origThumbnail.start = NULL
                            THEN /\ origThumbnail' = [origThumbnail EXCEPT !.start = lineStart]
                                 /\ origThumbnailLines' = 1
                            ELSE UNCHANGED <<origThumbnail, origThumbnailLines>>
                         /\ aToken' = NoToken
                         /\ state' = IF slot["thumbnail"].start = NULL
                                     THEN "ST_THUMBNAIL" ELSE "ST_FIND_LINE_START"
                         /\ UNCHANGED <<slot, valueToken, fillLine, keyLine>>
                    ELSE UNCHANGED <<aToken, state, metaVars>>
               ELSE IF ch = "="
               THEN CommentKey /\ UNCHANGED <<slot, origThumbnail, origThumbnailLines, fillLine>>
               ELSE /\ aToken' = IF ~isspace(ch)
                                 THEN [aToken EXCEPT !.length = it - aToken.start + 1]
                                 ELSE aToken
                    /\ UNCHANGED <<state, metaVars>>
    /\ Advance
    /\ UNCHANGED <<prevExt, isAbsPos, code, par, pos, param, hasExt>>
    /\ UNCHANGED <<envVars, callVars, ioVars, outVars>>

\* IsNozzleSplit for the value of any key
IsNozzleSplitAnySlot == ch = ","

\* else if (ch == ',' && valueToken == &nozzleTemp0)
IsNozzleSplit == ch = "," /\ valueToken = "nozzleTemp0"

\* case ST_PARAMETER_VALUE; valueToken is dereferenced on every byte but '\n'
LexParameterValue ==
    /\ LexAt("ST_PARAMETER_VALUE")
    /\ IF ch # "\n" /\ valueToken = "NULL"
       THEN /\ ub' = TRUE
            /\ pc' = "crashed"
            /\ UNCHANGED <<file, wi, res, bufAlloc, inputBuf, inputLen, fp, cbLog, wopened, ioLog>>
            /\ UNCHANGED <<metaVars, lexVars>>
       ELSE /\ IF ch = "\n"
               THEN /\ valueToken' = "NULL"
                    /\ state' = "ST_LINE_START"
                    /\ UNCHANGED <<slot, fillLine>>
               ELSE IF slot[valueToken].start = NULL
               THEN /\ IF ~isspace(ch)
                       THEN /\ slot' = [slot EXCEPT ![valueToken] = [start |-> it, length |-> 1]]
                            /\ fillLine' = [fillLine EXCEPT ![valueToken] = lineNr]
                       ELSE UNCHANGED <<slot, fillLine>>
                    /\ UNCHANGED <<valueToken, state>>
               ELSE IF IsNozzleSplit
               THEN /\ slot' = [slot EXCEPT ![valueToken].length = it - slot[valueToken].start + 1]
                    /\ valueToken' = "nozzleTemp1"
                    /\ UNCHANGED <<state, fillLine>>
               ELSE /\ slot' = IF ~isspace(ch)
                               THEN [slot EXCEPT ![valueToken].length = it - slot[valueToken].start + 1]
                               ELSE slot
                    /\ UNCHANGED <<valueToken, state, fillLine>>
            /\ Advance
            /\ UNCHANGED <<hasLayerChange, aToken, param>>
            /\ UNCHANGED <<origThumbnailLines, origThumbnail, keyLine>>
            /\ UNCHANGED ioVars
    /\ UNCHANGED <<envVars, callVars, geoVars, outVars>>

\* case ST_THUMBNAIL
LexThumbnail ==
    /\ LexAt("ST_THUMBNAIL")
    /\ origThumbnailLines' = IF featRemove /\ ch = "\n"
                             THEN origThumbnailLines + 1 ELSE origThumbnailLines
    /\ IF slot["thumbnail"].start = NULL
       THEN /\ IF ch = "\n"
               THEN /\ slot' = [slot EXCEPT !["thumbnail"].start = it + 1]
                    /\ fillLine' = [fillLine EXCEPT !["thumbnail"] = lineNr]
               ELSE UNCHANGED <<slot, fillLine>>
            /\ UNCHANGED <<aToken, state, origThumbnail>>
       ELSE IF ch = ";"
       THEN aToken' = BeginToken /\ UNCHANGED <<slot, fillLine, state, origThumbnail>>
       ELSE IF aToken.start # NULL
       THEN IF isspace(inputBuf[aToken.start])
            THEN /\ aToken' = [start |-> it, length |-> 1]
                 /\ UNCHANGED <<slot, fillLine, state, origThumbnail>>
            ELSE LET tok == [aToken EXCEPT !.length = @ + 1] IN
                 /\ aToken' = tok
                 /\ UNCHANGED fillLine
                 /\ IF p_cmpToken(inputBuf, tok, MARK_THUMBNAIL_END) = 0
                    THEN /\ slot' = [slot EXCEPT !["thumbnail"].length = lineStart - slot["thumbnail"].start]
                         /\ origThumbnail' =
                                IF featRemove
                                THEN [origThumbnail EXCEPT !.length = it - origThumbnail.start]
                                ELSE origThumbnail
                         /\ state' = IF featRemove THEN "ST_THUMBNAIL_TAIL"
                                     ELSE "ST_FIND_LINE_START"
                    ELSE UNCHANGED <<slot, state, origThumbnail>>
       ELSE UNCHANGED <<slot, fillLine, aToken, state, origThumbnail>>
    /\ Advance
    /\ UNCHANGED <<hasLayerChange, param, valueToken, keyLine>>
    /\ UNCHANGED <<envVars, callVars, geoVars, ioVars, outVars>>

\* case ST_THUMBNAIL_TAIL (only with FEATURE_REMOVE_ORIG_THUMBNAIL)
LexThumbnailTail ==
    /\ LexAt("ST_THUMBNAIL_TAIL")
    /\ IF ch = "\n"
       THEN /\ origThumbnail' = [origThumbnail EXCEPT !.length = it + 1 - origThumbnail.start]
            /\ state' = "ST_LINE_START"
       ELSE UNCHANGED <<origThumbnail, state>>
    /\ Advance
    /\ UNCHANGED <<hasLayerChange, aToken, param>>
    /\ UNCHANGED <<slot, valueToken, origThumbnailLines, fillLine, keyLine>>
    /\ UNCHANGED <<envVars, callVars, geoVars, ioVars, outVars>>

(* ------------------------- the header's text -------------------------- *)
\* the pieces of the format strings; "deg" stands for the degree sign
HDR_POST ==
    <<";", "p", "o", "s", "t", "-", "p", "r", "o", "c", "e", "s", "s", "e", "d", " ", "b", "y",
    " ", "s", "m", "2", "p", "s", "p", "p", " ">>
HDR_URL ==
    <<" ", "(", "h", "t", "t", "p", "s", ":", "/", "/", "g", "i", "t", "h", "u", "b", ".", "c",
    "o", "m", "/", "d", "a", "n", "i", "e", "l", "-", "s", "t", "a", "r", "k", "e", "/", "s",
    "m", "2", "p", "s", "p", "p", ")", "\n">>
HDR_START ==
    <<";", "H", "e", "a", "d", "e", "r", " ", "S", "t", "a", "r", "t", "\n", "\n">>
HDR_FLAVOR ==
    <<";", "F", "L", "A", "V", "O", "R", ":", "M", "a", "r", "l", "i", "n", "\n">>
HDR_TIME ==
    <<";", "T", "I", "M", "E", ":", "6", "6", "6", "6", "\n", "\n", "\n">>
HDR_FILAMENT ==
    <<";", "F", "i", "l", "a", "m", "e", "n", "t", " ", "u", "s", "e", "d", ":", " ">>
HDR_LAYER ==
    <<";", "L", "a", "y", "e", "r", " ", "h", "e", "i", "g", "h", "t", ":", " ">>
HDR_TYPE ==
    <<";", "h", "e", "a", "d", "e", "r", "_", "t", "y", "p", "e", ":", " ", "3", "d", "p",
    "\n">>
HDR_THUMBNAIL ==
    <<";", "t", "h", "u", "m", "b", "n", "a", "i", "l", ":", " ", "d", "a", "t", "a", ":", "i",
    "m", "a", "g", "e", "/", "p", "n", "g", ";", "b", "a", "s", "e", "6", "4", ",">>
HDR_LINES ==
    <<";", "f", "i", "l", "e", "_", "t", "o", "t", "a", "l", "_", "l", "i", "n", "e", "s", ":",
    " ">>
HDR_EST ==
    <<";", "e", "s", "t", "i", "m", "a", "t", "e", "d", "_", "t", "i", "m", "e", "(", "s", ")",
    ":", " ">>
HDR_NOZZLE ==
    <<";", "n", "o", "z", "z", "l", "e", "_", "t", "e", "m", "p", "e", "r", "a", "t", "u", "r",
    "e", "(", "deg", "C", ")", ":", " ">>
HDR_NOZZLE1 ==
    <<";", "n", "o", "z", "z", "l", "e", "_", "1", "_", "t", "e", "m", "p", "e", "r", "a", "t",
    "u", "r", "e", "(", "deg", "C", ")", ":", " ">>
HDR_PLATE ==
    <<";", "b", "u", "i", "l", "d", "_", "p", "l", "a", "t", "e", "_", "t", "e", "m", "p", "e",
    "r", "a", "t", "u", "r", "e", "(", "deg", "C", ")", ":", " ">>
HDR_SPEED ==
    <<";", "w", "o", "r", "k", "_", "s", "p", "e", "e", "d", "(", "m", "m", "/", "m", "i", "n",
    "u", "t", "e", ")", ":", " ">>
HDR_MAX_X ==
    <<";", "m", "a", "x", "_", "x", "(", "m", "m", ")", ":", " ">>
HDR_MAX_Y ==
    <<";", "m", "a", "x", "_", "y", "(", "m", "m", ")", ":", " ">>
HDR_MAX_Z ==
    <<";", "m", "a", "x", "_", "z", "(", "m", "m", ")", ":", " ">>
HDR_MIN_X ==
    <<";", "m", "i", "n", "_", "x", "(", "m", "m", ")", ":", " ">>
HDR_MIN_Y ==
    <<";", "m", "i", "n", "_", "y", "(", "m", "m", ")", ":", " ">>
HDR_MIN_Z ==
    <<";", "m", "i", "n", "_", "z", "(", "m", "m", ")", ":", " ">>
HDR_END ==
    <<";", "H", "e", "a", "d", "e", "r", " ", "E", "n", "d", "\n", "\n">>
TXT_INF ==
    <<"i", "n", "f">>
TXT_NAN ==
    <<"n", "a", "n">>

DigitCh(d) == <<"0", "1", "2", "3", "4", "5", "6", "7", "8", "9">>[d + 1]

\* %lu
RECURSIVE FmtUInt(_)
FmtUInt(n) == IF n < 10 THEN <<DigitCh(n)>> ELSE FmtUInt(n \div 10) \o <<DigitCh(n % 10)>>

RECURSIVE Pow10(_)
Pow10(d) == IF d = 0 THEN 1 ELSE 10 * Pow10(d - 1)

\* num / den (both >= 0, den > 0) rounded to the nearest integer, ties to even
RoundDiv(num, den) ==
    LET q == num \div den
        r == num % den
    IN  IF (2 * r) > den \/ ((2 * r) = den /\ (q % 2) = 1) THEN q + 1 ELSE q

\* the last w digits of n
RECURSIVE FmtPad(_, _)
FmtPad(n, w) == IF w <= 1 THEN <<DigitCh(n % 10)>>
                ELSE FmtPad(n \div 10, w - 1) \o <<DigitCh(n % 10)>>

\* %.<d>f of the finite value num / den
FmtRat(num, den, d) ==
    LET mag == IF num < 0 THEN 0 - num ELSE num
        q == RoundDiv(mag * Pow10(d), den)
        body == IF d = 0 THEN FmtUInt(q)
                ELSE FmtUInt(q \div Pow10(d)) \o <<".">> \o FmtPad(q % Pow10(d), d)
    IN  (IF num < 0 THEN <<"-">> ELSE <<>>) \o body

\* %.<d>f of the float f times mul / div: "inf", "-inf" and "nan" for the non-finite
FmtFloat(f, mul, div, d) ==
    IF f.k = "nan" THEN TXT_NAN
    ELSE IF f.k = "inf" THEN (IF f.v < 0 THEN <<"-">> ELSE <<>>) \o TXT_INF
    ELSE FmtRat(f.v * mul, Scale * div, d)

NL == <<"\n">>

\* the loop that copies the runs of Base64 characters, each run when it ends
RECURSIVE ThumbnailRuns(_, _, _)
ThumbnailRuns(s, i, run) ==
    IF i > Len(s) THEN <<>>
    ELSE IF IsBase64(s[i]) THEN ThumbnailRuns(s, i + 1, run \o <<s[i]>>)
    ELSE run \o ThumbnailRuns(s, i + 1, <<>>)

\* if (thumbnail.start != NULL || thumbnail.length > 0)
WritesThumbnail == slot["thumbnail"].start # NULL \/ slot["thumbnail"].length > 0

\* float nozzleTemp1Val
Nozzle1 ==
    IF slot["nozzleTemp1"].start # NULL /\ slot["nozzleTemp1"].length > 0
    THEN p_float(inputBuf, slot["nozzleTemp1"])
    ELSE F(0)

\* nozzleTemp1Val > 0.1f
WritesNozzle1 == FGt(Nozzle1, F(Scale \div 10))

\* the header lines counted in file_total_lines besides lineNr
HEADER_LINES == 24

\* lineNr as it is printed: +1 for the second nozzle, minus the removed lines
TotalLines ==
    (lineNr + (IF WritesNozzle1 THEN 1 ELSE 0)
            - (IF featRemove THEN origThumbnailLines ELSE 0))
    + HEADER_LINES + (IF WritesThumbnail THEN 1 ELSE 0)

HeaderBoxField(txt, f) == txt \o FmtFloat(f, 1, 1, 2) \o NL

\* the fprintf calls of the header, in their order
Header ==
    HDR_POST \o PROGRAM_VERSION_STR \o HDR_URL
    \o HDR_START \o HDR_FLAVOR \o HDR_TIME
    \o HDR_FILAMENT \o FmtFloat(p_float(inputBuf, slot["filamentUsed"]), 1, 1000, 0)
    \o <<"m">> \o NL
    \o HDR_LAYER \o FmtFloat(p_float(inputBuf, slot["layerHeight"]), 1, 1, 2) \o NL
    \o HDR_TYPE
    \o (IF WritesThumbnail
        THEN HDR_THUMBNAIL \o ThumbnailRuns(TokText(inputBuf, slot["thumbnail"]), 1, <<>>) \o NL
        ELSE <<>>)
    \o HDR_LINES \o FmtUInt(TotalLines) \o NL
    \o HDR_EST \o FmtRat(p_dtms(inputBuf, slot["estTime"]), 1, 0) \o NL
    \o HDR_NOZZLE \o FmtFloat(p_float(inputBuf, slot["nozzleTemp0"]), 1, 1, 0) \o NL
    \o (IF WritesNozzle1 THEN HDR_NOZZLE1 \o FmtFloat(Nozzle1, 1, 1, 0) \o NL ELSE <<>>)
    \o HDR_PLATE \o FmtFloat(p_float(inputBuf, slot["plateTemp"]), 1, 1, 0) \o NL
    \o HDR_SPEED \o FmtFloat(p_float(inputBuf, slot["printSpeed"]), 60, 1, 0) \o NL
    \o HeaderBoxField(HDR_MAX_X, bmax["X"])
    \o HeaderBoxField(HDR_MAX_Y, bmax["Y"])
    \o HeaderBoxField(HDR_MAX_Z, bmax["Z"])
    \o HeaderBoxField(HDR_MIN_X, bmin["X"])
    \o HeaderBoxField(HDR_MIN_Y, bmin["Y"])
    \o HeaderBoxField(HDR_MIN_Z, bmin["Z"]) \o NL
    \o HDR_END

(* --------------------- processFile: after the pass -------------------- *)
\* the end of the loop, and the correction of minZ by the first layer height
EndOfPass ==
    /\ pc = "lex"
    /\ it > inputLen
    /\ bmin' = IF /\ slot["firstLayerHeight"].start # NULL
                  /\ slot["firstLayerHeight"].length > 0
                  /\ FLt(bmin["Z"], bmax["Z"])
               THEN [bmin EXCEPT !["Z"] = FSub(@, p_float(inputBuf, slot["firstLayerHeight"]))]
               ELSE bmin
    /\ pc' = "warn"
    /\ wi' = 1
    /\ UNCHANGED <<prevExt, isAbsPos, code, par, pos, bmax, visited, hasExt>>
    /\ UNCHANGED <<file, res, bufAlloc, inputBuf, inputLen, fp, cbLog, wopened, ub, ioLog>>
    /\ UNCHANGED <<envVars, callVars, metaVars, lexVars, outVars>>

\* the seven checks for a missing token, in their order
WarnSlot ==
    <<"filamentUsed", "layerHeight", "estTime", "nozzleTemp0", "plateTemp",
      "printSpeed", "thumbnail">>

WarnMsg ==
    <<"MSGT_WARN_NO_FILAMENT_USED", "MSGT_WARN_NO_LAYER_HEIGHT", "MSGT_WARN_NO_EST_TIME",
      "MSGT_WARN_NO_NOZZLE_TEMP", "MSGT_WARN_NO_PLATE_TEMP", "MSGT_WARN_NO_PRINT_SPEED",
      "MSGT_WARN_NO_THUMBNAIL">>

\* IsMissing by the start of the token alone
IsMissingStart(n) == slot[n].start = NULL

\* if (<token>.start == NULL || <token>.length == 0)
IsMissing(n) == slot[n].start = NULL \/ slot[n].length = 0

\* Stops with only the answer 0 taken as a stop
StopsOnZero(r) == r = 0

\* ON_WARN: if (cb(msg, file, lineNr) != 1) goto onError
Stops(r) == r # 1

\* if (<token missing>) ON_WARN(msg): the callback decides whether to go on
CheckToken ==
    /\ pc = "warn"
    /\ IF IsMissing(WarnSlot[wi])
       THEN \E r \in CbReturns :
              /\ cbLog' = Append(cbLog, Told(WarnMsg[wi], r))
              /\ IF Stops(r)
                 THEN /\ Return(res)
                      /\ OnError(<<>>, fp)
                      /\ UNCHANGED wi
                 ELSE /\ IF wi = Len(WarnSlot)
                         THEN pc' = "create" /\ UNCHANGED wi
                         ELSE wi' = wi + 1 /\ UNCHANGED pc
                      /\ UNCHANGED <<res, fp, bufAlloc, inputBuf, ioLog>>
       ELSE /\ IF wi = Len(WarnSlot)
               THEN pc' = "create" /\ UNCHANGED wi
               ELSE wi' = wi + 1 /\ UNCHANGED pc
            /\ UNCHANGED <<res, fp, bufAlloc, inputBuf, cbLog, ioLog>>
    /\ UNCHANGED <<file, inputLen, wopened, ub>>
    /\ UNCHANGED <<envVars, callVars, geoVars, metaVars, lexVars, outVars>>

\* fopen(file, "wb"): the file is truncated
CreateFile ==
    /\ pc = "create"
    /\ \/ /\ ON_ERROR("MSGT_ERR_FILE_CREATE")
          /\ OnError(<<"fault">>, fp)
          /\ UNCHANGED <<file, wopened>>
       \/ /\ fp' = "wb"
          /\ ioLog' = Append(ioLog, "fopen")
          /\ file' = <<>>
          /\ wopened' = TRUE
          /\ pc' = "header"
          /\ UNCHANGED <<res, bufAlloc, inputBuf, cbLog>>
    /\ UNCHANGED <<wi, inputLen, ub>>
    /\ UNCHANGED <<envVars, callVars, geoVars, metaVars, lexVars, outVars>>

\* what a failed write may leave of the bytes s
Partial(s) == {SubSeq(s, 1, n) : n \in {0, Len(s) \div 8}}

\* the header's fprintf calls, then ferror(fp)
WriteHeader ==
    /\ pc = "header"
    /\ hasThumbnail' = IF WritesThumbnail THEN 1 ELSE hasThumbnail
    /\ nozzleTemp1Val' = Nozzle1
    /\ lineNr' = (lineNr + (IF WritesNozzle1 THEN 1 ELSE 0))
                 - (IF featRemove THEN origThumbnailLines ELSE 0)
    /\ \/ /\ file' \in Partial(Header)
          /\ hdrOut' = file'
          /\ ON_ERROR("MSGT_ERR_FILE_WRITE")
          /\ OnError(<<"fault">>, fp)
       \/ /\ file' = Header
          /\ hdrOut' = Header
          /\ pc' = "body"
          /\ UNCHANGED <<res, bufAlloc, inputBuf, fp, cbLog, ioLog>>
    /\ UNCHANGED <<wi, inputLen, wopened, ub>>
    /\ UNCHANGED <<hasLayerChange, aToken, lineStart, state, param, it>>
    /\ UNCHANGED <<envVars, callVars, geoVars, metaVars>>

\* BodyParts with the last byte of the input left out
BodyPartsShort == <<SubSeq(inputBuf, 1, inputLen - 1)>>

\* the parts of inputBuf that are written after the header, one per fwrite
BodyParts ==
    IF featRemove /\ origThumbnail.start # NULL /\ origThumbnail.length # 0
    THEN LET thumbnailEndIt == origThumbnail.start + origThumbnail.length IN
         <<SubSeq(inputBuf, 1, origThumbnail.start - 1),
           SubSeq(inputBuf, thumbnailEndIt, inputLen)>>
    ELSE <<SubSeq(inputBuf, 1, inputLen)>>

\* the fwrite calls of the body; fwrite of no bytes returns 0, as a failed one does
WriteBody ==
    /\ pc = "body"
    /\ LET parts == BodyParts IN
       \/ \E k \in 1..Len(parts) :
             /\ \A j \in 1..(k - 1) : Len(parts[j]) > 0
             /\ \E cut \in IF Len(parts[k]) = 0 THEN {<<>>} ELSE Partial(parts[k]) :
                   file' = (IF k = 2 THEN file \o parts[1] ELSE file) \o cut
             /\ ON_ERROR("MSGT_ERR_FILE_WRITE")
             /\ OnError(IF Len(parts[k]) = 0 THEN <<>> ELSE <<"fault">>, fp)
       \/ /\ \A j \in 1..Len(parts) : Len(parts[j]) > 0
          /\ file' = IF Len(parts) = 2 THEN file \o parts[1] \o parts[2]
                     ELSE file \o parts[1]
          /\ Return(1)
          /\ OnError(<<>>, fp)
          /\ UNCHANGED cbLog
    /\ UNCHANGED <<wi, inputLen, wopened, ub>>
    /\ UNCHANGED <<envVars, callVars, geoVars, metaVars, lexVars, outVars>>

(* ----------------------------- the inputs ----------------------------- *)
G_EXT_X ==
    <<"G", "1", " ", "X", "1", " ", "E", "1", "\n">>
G_EXT_Y ==
    <<"G", "1", " ", "Y", "2", " ", "E", "1", "\n">>
G_EXT_XZ ==
    <<"G", "0", " ", "X", "3", " ", "Z", "2", " ", "E", ".", "5", "\n">>
G_TRAVEL ==
    <<"G", "1", " ", "X", "-", "1", " ", "Z", "1", "\n">>
G_EXT_NONE ==
    <<"G", "1", " ", "E", "1", "\n">>
G_REL ==
    <<"G", "9", "1", "\n">>
G_ABS ==
    <<"G", "9", "0", "\n">>
C_LAYER_CHANGE ==
    <<";", "L", "A", "Y", "E", "R", "_", "C", "H", "A", "N", "G", "E", "\n">>
Z_EXT_1 ==
    <<"G", "1", " ", "Z", "1", " ", "E", "1", "\n">>
Z_EXT_3 ==
    <<"G", "1", " ", "Z", "3", " ", "E", "1", "\n">>
Z_FLH_POS ==
    <<";", "f", "i", "r", "s", "t", "_", "l", "a", "y", "e", "r", "_", "h", "e", "i", "g", "h",
    "t", "=", "1", "\n">>
Z_FLH_NEG ==
    <<";", "f", "i", "r", "s", "t", "_", "l", "a", "y", "e", "r", "_", "h", "e", "i", "g", "h",
    "t", "=", "-", "3", "\n">>
M_FILAMENT ==
    <<";", " ", "f", "i", "l", "a", "m", "e", "n", "t", " ", "u", "s", "e", "d", " ", "[", "m",
    "m", "]", " ", "=", " ", "1", "2", "3", "4", ".", "5", "\n">>
M_LAYER_A ==
    <<";", "l", "a", "y", "e", "r", "_", "h", "e", "i", "g", "h", "t", " ", "=", " ", "0", ".",
    "2", "\n">>
M_LAYER_B ==
    <<";", " ", "l", "a", "y", "e", "r", "_", "h", "e", "i", "g", "h", "t", "=", "0", ".", "3",
    "5", " ", "\n">>
M_LAYER_EMPTY ==
    <<";", "l", "a", "y", "e", "r", "_", "h", "e", "i", "g", "h", "t", " ", "=", "\n">>
M_TIME ==
    <<";", " ", "e", "s", "t", "i", "m", "a", "t", "e", "d", " ", "p", "r", "i", "n", "t", "i",
    "n", "g", " ", "t", "i", "m", "e", " ", "(", "n", "o", "r", "m", "a", "l", " ", "m", "o",
    "d", "e", ")", " ", "=", " ", "1", "h", " ", "2", "m", " ", "3", "s", "\n">>
M_TEMP_DUAL ==
    <<";", "f", "i", "r", "s", "t", "_", "l", "a", "y", "e", "r", "_", "t", "e", "m", "p", "e",
    "r", "a", "t", "u", "r", "e", " ", "=", " ", "2", "1", ",", "2", "0", "\n">>
M_TEMP_COMMA ==
    <<";", "f", "i", "r", "s", "t", "_", "l", "a", "y", "e", "r", "_", "t", "e", "m", "p", "e",
    "r", "a", "t", "u", "r", "e", " ", "=", " ", ",", "5", ",", "6", "\n">>
M_TEMP_ONE ==
    <<";", "f", "i", "r", "s", "t", "_", "l", "a", "y", "e", "r", "_", "t", "e", "m", "p", "e",
    "r", "a", "t", "u", "r", "e", "=", "2", "1", "\n">>
M_TEMP_COLD ==
    <<";", " ", "f", "i", "r", "s", "t", "_", "l", "a", "y", "e", "r", "_", "t", "e", "m", "p",
    "e", "r", "a", "t", "u", "r", "e", " ", "=", " ", "2", "1", ",", " ", "0", ".", "1", " ",
    "\n">>
M_PLATE ==
    <<";", "f", "i", "r", "s", "t", "_", "l", "a", "y", "e", "r", "_", "b", "e", "d", "_", "t",
    "e", "m", "p", "e", "r", "a", "t", "u", "r", "e", " ", "=", " ", "6", "0", "\n">>
M_SPEED ==
    <<";", "m", "a", "x", "_", "p", "r", "i", "n", "t", "_", "s", "p", "e", "e", "d", " ", "=",
    " ", "8", ",", "5", "\n">>
M_FILAMENT_B ==
    <<";", " ", "f", "i", "l", "a", "m", "e", "n", "t", " ", "u", "s", "e", "d", " ", "[", "m",
    "m", "]", " ", "=", " ", "7", "\n">>
M_TIME_B ==
    <<";", " ", "e", "s", "t", "i", "m", "a", "t", "e", "d", " ", "p", "r", "i", "n", "t", "i",
    "n", "g", " ", "t", "i", "m", "e", " ", "(", "s", "i", "l", "e", "n", "t", " ", "m", "o",
    "d", "e", ")", " ", "=", " ", "5", "m", "\n">>
M_PLATE_B ==
    <<";", "f", "i", "r", "s", "t", "_", "l", "a", "y", "e", "r", "_", "b", "e", "d", "_", "t",
    "e", "m", "p", "e", "r", "a", "t", "u", "r", "e", "=", " ", "7", "0", ",", "5", "\n">>
M_SPEED_B ==
    <<";", " ", "m", "a", "x", "_", "p", "r", "i", "n", "t", "_", "s", "p", "e", "e", "d", " ",
    "=", " ", "9", "\n">>
T_BEGIN ==
    <<";", " ", "t", "h", "u", "m", "b", "n", "a", "i", "l", " ", "b", "e", "g", "i", "n", " ",
    "1", "x", "1", " ", "4", "\n">>
T_DATA ==
    <<";", " ", "Q", "U", "J", "D", "\n">>
T_END ==
    <<";", " ", "t", "h", "u", "m", "b", "n", "a", "i", "l", " ", "e", "n", "d", "\n">>
X_MARK ==
    <<";", "p", "o", "s", "t", "-", "p", "r", "o", "c", "e", "s", "s", "e", "d", " ", "b", "y",
    " ", "s", "m", "2", "p", "s", "p", "p", " ", "1", ".", "0", "\n">>
X_MARK_TAIL ==
    <<"G", "1", " ", "X", "1", " ", "E", "1", " ", ";", " ", "p", "o", "s", "t", "-", "p", "r",
    "o", "c", "e", "s", "s", "e", "d", " ", "b", "y", " ", "s", "m", "2", "p", "s", "p", "p",
    " ", "\n">>
X_MARK_NO_SPACE ==
    <<";", "p", "o", "s", "t", "-", "p", "r", "o", "c", "e", "s", "s", "e", "d", " ", "b", "y",
    " ", "s", "m", "2", "p", "s", "p", "p", "\n">>
X_OTHER ==
    <<"M", "1", "0", "4", " ", "S", "2", "0", "0", "\n">>
X_CRLF ==
    <<"G", "2", "8", " ", ";", "h", "o", "m", "e", "\r", "\n">>
X_NO_NEWLINE ==
    <<"G", "1", " ", "Y", "5", " ", "E", "2">>

\* every concatenation of at most n of the lines in S
RECURSIVE Cat(_, _)
Cat(S, n) == IF n = 0 THEN {<<>>} ELSE {<<>>} \cup {l \o r : l \in S, r \in Cat(S, n - 1)}

GeomLines == {G_EXT_X, G_EXT_Y, G_TRAVEL, G_EXT_NONE, G_REL, C_LAYER_CHANGE}
HeightLines == {Z_EXT_1, Z_EXT_3, Z_FLH_POS, Z_FLH_NEG}
MetaLines ==
    {M_LAYER_A, M_LAYER_B, M_LAYER_EMPTY, M_TEMP_DUAL, M_TEMP_COMMA, M_TEMP_ONE, M_TEMP_COLD,
     M_SPEED}
ThumbLines == {T_BEGIN, T_DATA, T_END, G_EXT_X}
OtherLines == {X_MARK, X_MARK_TAIL, X_MARK_NO_SPACE, X_OTHER, X_CRLF, X_NO_NEWLINE, G_EXT_X}

\* a file with every token present, as the slicer writes it
FullFile ==
    T_BEGIN \o T_DATA \o T_END \o G_TRAVEL \o C_LAYER_CHANGE \o G_EXT_X \o G_EXT_Y \o Z_EXT_1
    \o Z_EXT_3 \o M_FILAMENT \o M_TIME \o M_LAYER_A \o Z_FLH_POS \o M_TEMP_DUAL \o M_PLATE
    \o M_SPEED

\* FullFile followed by a second line for every key
RepeatFile ==
    FullFile \o M_FILAMENT_B \o M_TIME_B \o M_LAYER_B \o Z_FLH_NEG \o M_TEMP_ONE
    \o M_PLATE_B \o M_SPEED_B \o T_BEGIN \o T_DATA \o T_END

\* relative moves, a return to absolute positioning, a move with G0 and a fraction
ModeFile == G_REL \o G_EXT_X \o G_EXT_XZ \o G_ABS \o G_EXT_XZ \o G_TRAVEL \o G_EXT_Y

G_PACKED ==
    <<"G", "1", "X", "1", "Y", "2", "E", "1", "\n">>
G_SPACED ==
    <<"G", "1", " ", "X", "1", " ", "Y", "2", " ", "E", "1", "\n">>
G_PACKED_REL ==
    <<"G", "9", "1", "X", "5", "\n">>

\* G lines with and without spaces before the parameter letters
PackedInputs == {G_PACKED, G_SPACED, G_EXT_X \o G_PACKED, G_EXT_X \o G_PACKED_REL}

\* single lines that the catalogues do not combine
SingleLines == {M_FILAMENT, M_TIME, M_PLATE, M_FILAMENT_B, M_TIME_B, M_PLATE_B, M_SPEED_B, G_ABS}

\* the inputs with thumbnail lines: both builds are run on them
MidThumbFile == G_EXT_X \o T_BEGIN \o T_DATA \o T_END \o G_TRAVEL
ThumbInputs == Cat(ThumbLines, MaxGeomLines) \cup {FullFile, MidThumbFile}

Inputs ==
    Cat(GeomLines, MaxGeomLines) \cup Cat(HeightLines, MaxGeomLines)
    \cup Cat(MetaLines, MaxMetaLines) \cup Cat(OtherLines, MaxMetaLines) \cup ThumbInputs
    \cup {RepeatFile, ModeFile} \cup SingleLines \cup PackedInputs

(* ------------------------- the specification -------------------------- *)
NoOutput == [f |-> "none", v |-> 0]

Init ==
    /\ \/ file \in Inputs /\ featRemove = FALSE
       \/ file \in ThumbInputs /\ featRemove = TRUE
    /\ calls = 0
    /\ pc = "idle"
    /\ file0 = <<>>
    /\ prev = [res |-> 0, wopened |-> FALSE, ran |-> FALSE]
    /\ LocalsInit
    /\ mpTok = <<>>
    /\ mpOut = NoOutput

Next ==
    \/ Call
    \/ OpenInput
    \/ AllocBuffer
    \/ ReadInput
    \/ LexLineStart
    \/ LexFindLineStart
    \/ LexGcode
    \/ LexCommentPostProcessed
    \/ LexComment
    \/ LexParameterValue
    \/ LexThumbnail
    \/ LexThumbnailTail
    \/ EndOfPass
    \/ CheckToken
    \/ CreateFile
    \/ WriteHeader
    \/ WriteBody

Spec == Init /\ [][Next]_vars

(* ------------------- the micro-parsers on their own ------------------- *)
EX_1H2M3S ==
    <<"1", "h", "2", "m", "3", "s">>
EX_90S ==
    <<"9", "0", "s">>
EX_2D ==
    <<"2", "d">>
EX_FLOAT ==
    <<"-", "3", ".", "5", "0", "x", "y", "z">>
EX_UINT ==
    <<"1", "2", "a", "b", "c">>
EX_GAP ==
    <<"1", "x", "2", "s">>
EX_TWO_DOTS ==
    <<"1", ".", "2", ".", "3">>

TokChars == {"0", "1", "2", "d", "h", "m", "s", " ", "-", ".", "x"}

\* every sequence of at most n of the characters in S
RECURSIVE Strings(_, _)
Strings(S, n) ==
    IF n = 0 THEN {<<>>} ELSE {<<>>} \cup {<<c>> \o r : c \in S, r \in Strings(S, n - 1)}

Tokens == Strings(TokChars, MaxTokLen) \cup {EX_1H2M3S, EX_90S, EX_2D, EX_FLOAT, EX_UINT, EX_GAP,
     EX_TWO_DOTS}

\* the token that views all of the buffer s
Whole(s) == [start |-> 1, length |-> Len(s)]

InitParse ==
    /\ file = <<>>
    /\ featRemove = FALSE
    /\ calls = 0
    /\ pc = "idle"
    /\ file0 = <<>>
    /\ prev = [res |-> 0, wopened |-> FALSE, ran |-> FALSE]
    /\ LocalsInit
    /\ mpTok \in Tokens
    /\ mpOut = NoOutput

RunDtms ==
    /\ mpOut.f = "none"
    /\ mpOut' = [f |-> "p_dtms", v |-> p_dtms(mpTok, Whole(mpTok))]
    /\ UNCHANGED <<featRemove, mpTok, callVars, geoVars, metaVars, ioVars, lexVars, outVars>>

RunUint ==
    /\ mpOut.f = "none"
    /\ mpOut' = [f |-> "p_uint", v |-> p_uint(mpTok, Whole(mpTok))]
    /\ UNCHANGED <<featRemove, mpTok, callVars, geoVars, metaVars, ioVars, lexVars, outVars>>

RunFloat ==
    /\ mpOut.f = "none"
    /\ mpOut' = [f |-> "p_float", v |-> p_float(mpTok, Whole(mpTok))]
    /\ UNCHANGED <<featRemove, mpTok, callVars, geoVars, metaVars, ioVars, lexVars, outVars>>

NextParse ==
    \/ RunDtms
    \/ RunUint
    \/ RunFloat

SpecParse == InitParse /\ [][NextParse]_vars

(* ====================================================================== *)
(* Properties.  The operators below describe the input text itself and    *)
(* what is expected of it; none of them is used by the actions above.     *)
(* ====================================================================== *)
SetMax(S) == CHOOSE x \in S : \A y \in S : y <= x
SetMin(S) == CHOOSE x \in S : \A y \in S : x <= y

StartsWith(s, p) == Len(s) >= Len(p) /\ SubSeq(s, 1, Len(p)) = p
EndsWith(s, p) == Len(s) >= Len(p) /\ SubSeq(s, Len(s) - Len(p) + 1, Len(s)) = p

\* the places where pat occurs in s
Occurs(s, pat) == {i \in 1..(Len(s) - Len(pat) + 1) : SubSeq(s, i, i + Len(pat) - 1) = pat}

\* the text that follows the first occurrence of label in s, up to the end of its line
FieldText(s, label) ==
    LET b == SetMin(Occurs(s, label)) + Len(label)
        e == SetMin({i \in b..(Len(s) + 1) : i = Len(s) + 1 \/ s[i] = "\n"})
    IN  SubSeq(s, b, e - 1)

\* the first byte of the line that holds byte i
LineBegin(buf, i) == SetMax({j \in 1..i : j = 1 \/ buf[j - 1] = "\n"})

\* the place after the last byte of the line that holds byte i: its newline, or the end
LineEnd(buf, i) == SetMin({j \in i..(Len(buf) + 1) : j = Len(buf) + 1 \/ buf[j] = "\n"})

\* the first ';' of the line that holds byte i, at or before i (0: none)
CommentStart(buf, i) ==
    LET S == {j \in LineBegin(buf, i)..i : buf[j] = ";"}
    IN  IF S = {} THEN 0 ELSE SetMin(S)

\* byte i is the space that ends the words "post-processed by sm2pspp" at the
\* start of the comment of its line
MarkerReadAt(buf, i) ==
    /\ i \in 1..Len(buf)
    /\ buf[i] = " "
    /\ LET c == CommentStart(buf, i) IN
       /\ c # 0
       /\ \E k \in (c + 1)..(i - 1) :
             /\ \A j \in (c + 1)..(k - 1) : isspace(buf[j])
             /\ SubSeq(buf, k, i - 1) = MARK_POST_PROCESSED

WarnMsgs == {WarnMsg[i] : i \in 1..Len(WarnMsg)}
IsWarn(e) == e.msg \in WarnMsgs
LastTold == cbLog[Len(cbLog)]

\* the call was ended by the callback's answer to a warning
AbortedByCallback == cbLog # <<>> /\ IsWarn(LastTold) /\ LastTold.ret # 1
\* the call was ended by a fatal error
FatalError == cbLog # <<>> /\ ~IsWarn(LastTold)

\* the pass is over and the call goes on
PostPass == pc \in {"warn", "create", "header", "body"}

(* C1: idempotence.  A call on a file that the call before rewrote with    *)
(* result 1 returns 1 without any callback and without opening the file    *)
(* for writing, so the file is unchanged (unless the call cannot open or   *)
(* read the file, which is a fatal error that leaves the file unchanged    *)
(* too).  In general the pass never goes on after the space that ends the  *)
(* marker at the start of a comment, and the exit it takes there is a      *)
(* success without callback and without modification, taken only there.    *)
C1_Idempotence ==
    /\ (pc = "done" /\ prev.ran /\ prev.res = 1 /\ prev.wopened)
         => /\ file = file0
            /\ ~wopened
            /\ \/ res = 1 /\ cbLog = <<>>
               \/ res = 0 /\ Len(cbLog) = 1 /\ FatalError /\ LastTold.at \in {"open", "alloc", "read"}
    /\ (pc = "lex" /\ state = "ST_COMMENT" /\ it > 1) => ~MarkerReadAt(inputBuf, it - 1)
    /\ (pc = "done" /\ state = "ST_COMMENT" /\ it <= inputLen)
         => /\ res = 1
            /\ file = file0
            /\ ~wopened
            /\ cbLog = <<>>
            /\ MarkerReadAt(file0, it)

\* C1 witness: the second call on a rewritten file has returned 1 at the marker
C1_Witness ==
    /\ pc = "done" /\ prev.ran /\ prev.res = 1 /\ prev.wopened
    /\ res = 1 /\ cbLog = <<>> /\ file = file0 /\ ~wopened
    /\ StartsWith(file, HDR_POST)
    /\ it = Len(HDR_POST)

(* C2: body preservation.  When the rewrite succeeds in a build without    *)
(* the removal of the original thumbnail, the file is the header followed  *)
(* by exactly the bytes of the input; the header is written to the empty   *)
(* file and is complete, down to ";Header End", before any byte of the     *)
(* body is written.                                                        *)
C2_BodyPreserved ==
    /\ (pc = "done" /\ res = 1 /\ wopened /\ ~featRemove)
         => /\ file = hdrOut \o file0
            /\ StartsWith(hdrOut, HDR_POST)
            /\ EndsWith(hdrOut, HDR_END)
    /\ pc = "header" => file = <<>>
    /\ pc = "body" => file = hdrOut /\ EndsWith(file, HDR_END)

\* C2 witness: a rewrite of a file that is not empty has succeeded
C2_Witness ==
    /\ pc = "done" /\ res = 1 /\ wopened /\ ~featRemove
    /\ file0 = FullFile
    /\ file = hdrOut \o FullFile

(* C3: abort before modification.  A warning answered with anything but 1  *)
(* is the last thing the call does: it ends without having opened the file *)
(* for writing and the file is as it was.  The callback is asked about     *)
(* warnings only between the pass and the opening of the file for writing: *)
(* it is not called at all during the pass, and the calls made while the   *)
(* file is written report fatal errors.                                    *)
C3_AbortBeforeModification ==
    /\ \A i \in 1..Len(cbLog) :
          IsWarn(cbLog[i])
            => /\ cbLog[i].at = "warn"
               /\ cbLog[i].ret # 1
                    => /\ i = Len(cbLog)
                       /\ pc = "done"
                       /\ ~wopened
                       /\ file = file0
    /\ pc = "lex" => cbLog = <<>>
    /\ wopened => \A i \in 1..Len(cbLog) : cbLog[i].at \in {"header", "body"} => ~IsWarn(cbLog[i])

\* C3 witness: the callback has stopped the call at a warning
C3_Witness == pc = "done" /\ AbortedByCallback /\ LastTold.ret = 0 /\ Len(cbLog) = 3 /\ file0 # <<>>

(* C4: the result of processFile is 1 on success, 0 on a fatal error and   *)
(* -1 when the callback aborted the call.                                  *)
C4_ThreeValuedResult ==
    pc = "done" => res = (IF AbortedByCallback THEN -1 ELSE IF FatalError THEN 0 ELSE 1)

(* C5 as stated: whenever the input has at least one extruding move, the   *)
(* final bounding box (after the layer-change reset and the correction of  *)
(* min_z) has min <= max on each of the three axes.                        *)
C5_FinalBoxOrdered ==
    (PostPass /\ hasExt) => \A a \in Axes : FLe(bmin[a], bmax[a])

\* an axis of the box still holds +inf as minimum and -inf as maximum
IsSentinel(a) == bmin[a] = PINF /\ bmax[a] = NINF

\* the captured first layer height is negative
NegativeFirstLayerHeight ==
    /\ slot["firstLayerHeight"].start # NULL
    /\ slot["firstLayerHeight"].length > 0
    /\ FLt(p_float(inputBuf, slot["firstLayerHeight"]), F(0))

(* C5 amended: whenever the input has at least one extruding move, each    *)
(* axis of the final bounding box either still holds the sentinel pair     *)
(* (+inf, -inf) or has min <= max; for Z the order is kept provided the    *)
(* captured first layer height is not negative.                            *)
C5_FinalBoxOrderedOrSentinel ==
    (PostPass /\ hasExt) =>
       \A a \in Axes :
          \/ IsSentinel(a)
          \/ (a # "Z" \/ ~NegativeFirstLayerHeight) => FLe(bmin[a], bmax[a])

\* C5 witness: extruding moves on Z at 1 and 3 and a first layer height of 1
C5_Witness ==
    /\ PostPass /\ hasExt
    /\ bmin["Z"] = F(0) /\ bmax["Z"] = F(3 * Scale)
    /\ IsSentinel("X")

(* C6: without an extruding move the bounding box keeps +inf for every     *)
(* minimum and -inf for every maximum through the whole pass, and the six  *)
(* max_x .. min_z fields of the written header never hold an infinite      *)
(* value.                                                                  *)
C6_NoInfiniteHeaderValue ==
    /\ (pc = "lex" /\ ~hasExt) => \A a \in Axes : IsSentinel(a)
    /\ (pc = "body" /\ ~hasExt)
         => \A label \in {HDR_MAX_X, HDR_MAX_Y, HDR_MAX_Z, HDR_MIN_X, HDR_MIN_Y, HDR_MIN_Z} :
               FieldText(hdrOut, label) \notin {TXT_INF, <<"-">> \o TXT_INF}

(* C7: at the end of the pass, before the correction of min_z, every set   *)
(* coordinate of the position before and of the position after each        *)
(* extruding G0/G1 move dispatched since the last reset of the box lies    *)
(* within [min, max] of its axis.                                          *)
C7_BoxEnclosesExtrusion ==
    (pc = "lex" /\ it > inputLen)
       => \A c \in visited : FLe(bmin[c[1]], c[2]) /\ FLe(c[2], bmax[c[1]])

(* ------------- the 'key = value' comment lines of the input ------------ *)
FirstIn(S) == IF S = {} THEN 0 ELSE SetMin(S)

LineStarts(buf) == {j \in 1..Len(buf) : j = 1 \/ buf[j - 1] = "\n"}

\* the ';' of the line that begins at b if the line is a comment line, or 0
LineComment(buf, b) ==
    LET k == FirstIn({j \in b..(LineEnd(buf, b) - 1) : ~isspace(buf[j])})
    IN  IF k # 0 /\ buf[k] = ";" THEN k ELSE 0

\* the first '=' of the comment line that begins at b, or 0
LineEquals(buf, b) ==
    LET c == LineComment(buf, b)
    IN  IF c = 0 THEN 0
        ELSE FirstIn({j \in (c + 1)..(LineEnd(buf, b) - 1) : buf[j] = "="})

\* the bytes lo..hi without the white space around them, as a token
Trimmed(buf, lo, hi) ==
    LET S == {j \in lo..hi : ~isspace(buf[j])}
    IN  IF S = {} THEN NoToken
        ELSE [start |-> SetMin(S), length |-> SetMax(S) - SetMin(S) + 1]

\* the slot that the key text k names, or "NULL"
NamedSlot(k) ==
    CASE k = KEY_FILAMENT_USED -> "filamentUsed"
      [] k = KEY_FIRST_LAYER_HEIGHT -> "firstLayerHeight"
      [] k = KEY_LAYER_HEIGHT -> "layerHeight"
      [] StartsWith(k, KEY_EST_TIME) -> "estTime"
      [] k = KEY_NOZZLE_TEMP -> "nozzleTemp0"
      [] k = KEY_PLATE_TEMP -> "plateTemp"
      [] k = KEY_PRINT_SPEED -> "printSpeed"
      [] OTHER -> "NULL"

\* the slot that the line beginning at b gives a value to, or "NULL"
LineSlot(buf, b) ==
    LET c == LineComment(buf, b)
        q == LineEquals(buf, b)
    IN  IF q = 0 THEN "NULL" ELSE NamedSlot(TokText(buf, Trimmed(buf, c + 1, q - 1)))

\* the value of the 'key = value' line beginning at b
LineValue(buf, b) == Trimmed(buf, LineEquals(buf, b) + 1, LineEnd(buf, b) - 1)

KeyedSlots ==
    {"filamentUsed", "firstLayerHeight", "layerHeight", "estTime", "nozzleTemp0",
     "plateTemp", "printSpeed"}

\* the pass is at the first byte of a line, or over
BetweenLines ==
    \/ pc = "lex" /\ state = "ST_LINE_START" /\ it = lineStart
    \/ pc = "warn" /\ wi = 1
    \/ pc = "header"

\* the lines that have been read
LinesRead == {b \in LineStarts(inputBuf) : pc # "lex" \/ b < it}

\* the lines read, as a function to the slot each names and to its value
SlotsRead == [b \in LinesRead |-> LineSlot(inputBuf, b)]
ValuesRead ==
    [b \in LinesRead |-> IF SlotsRead[b] = "NULL" THEN NoToken ELSE LineValue(inputBuf, b)]

\* the first line read for slot n, or 0; with a value only, if asked so
FirstLine(n, withValue, key, val) ==
    FirstIn({b \in DOMAIN key : key[b] = n /\ (withValue => val[b].start # NULL)})

\* slot n holds the value v; of first_layer_temperature only the start is compared here
HoldsValue(n, v) ==
    IF v.start = NULL THEN IsMissing(n)
    ELSE slot[n].start = v.start /\ (n # "nozzleTemp0" => slot[n].length = v.length)

\* each slot holds the value of the first line read for it
FirstWins(withValue) ==
    LET key == SlotsRead
        val == ValuesRead
    IN  \A n \in KeyedSlots :
           LET b == FirstLine(n, withValue, key, val)
           IN  IF b = 0 THEN slot[n] = NoToken ELSE HoldsValue(n, val[b])

FirstComma(buf, from, to) == FirstIn({j \in from..to : buf[j] = ","})

\* The slots of first_layer_temperature, the other slots and the header line of
\* the second nozzle, when the comma that splits the value is looked for from the
\* value's byte number `skip` + 1 on.
DualNozzle(skip) ==
    LET key == SlotsRead
        val == ValuesRead
        b == FirstLine("nozzleTemp0", TRUE, key, val)
        v == val[b]
        k == FirstComma(inputBuf, v.start + skip, v.start + v.length - 1)
        secondary == IF b = 0 \/ k = 0 THEN NoToken
                     ELSE Trimmed(inputBuf, k + 1, LineEnd(inputBuf, b) - 1)
        B == IF secondary.start = NULL THEN F(0) ELSE p_float(inputBuf, secondary)
    IN  /\ BetweenLines =>
            /\ slot["nozzleTemp1"] = secondary
            /\ IF b = 0 THEN slot["nozzleTemp0"] = NoToken
               ELSE IF k = 0 THEN slot["nozzleTemp0"] = v
               ELSE /\ slot["nozzleTemp0"] = [start |-> v.start, length |-> k - v.start + 1]
                    /\ p_float(inputBuf, slot["nozzleTemp0"])
                         = p_float(inputBuf, Trimmed(inputBuf, v.start, k - 1))
            /\ \A n \in KeyedSlots \ {"nozzleTemp0"} :
                  LET c == FirstLine(n, TRUE, key, val)
                  IN  c # 0 => slot[n] = val[c]
        /\ pc = "body" =>
            /\ Occurs(hdrOut, HDR_NOZZLE1) # {} <=> FGt(B, F(Scale \div 10))
            /\ Occurs(hdrOut, HDR_NOZZLE1) # {}
                 => FieldText(hdrOut, HDR_NOZZLE1) = FmtFloat(B, 1, 1, 0)

(* C9 as stated: in the value of first_layer_temperature the first comma   *)
(* ends the primary value and the text after it is the secondary value; in *)
(* every other slot a comma is ordinary value text; the header has the     *)
(* line ";nozzle_1_temperature" exactly when the secondary value exceeds   *)
(* 0.1.                                                                    *)
C9_FirstCommaSplits == DualNozzle(0)

(* C9 amended: in the value of first_layer_temperature the first comma     *)
(* after the value's first character ends the primary value (the comma is  *)
(* the last byte of the primary token and does not change its number) and  *)
(* the text after it, without the white space around it, is the secondary  *)
(* value; in every other slot a comma is ordinary value text; the header   *)
(* has the line ";nozzle_1_temperature", with the secondary value, exactly *)
(* when the secondary value exceeds 0.1.                                   *)
C9_DualNozzleCapture == DualNozzle(1)

\* C9 witness: "21,20" has been split and the header has the second nozzle's line
C9_Witness ==
    /\ pc = "body"
    /\ TokText(inputBuf, slot["nozzleTemp0"]) = <<"2", "1", ",">>
    /\ TokText(inputBuf, slot["nozzleTemp1"]) = <<"2", "0">>
    /\ Occurs(hdrOut, HDR_NOZZLE1) # {}
    /\ FieldText(hdrOut, HDR_NOZZLE1) = <<"2", "0">>
    /\ FieldText(hdrOut, HDR_NOZZLE) = <<"2", "1">>

(* --------------------------- duration texts --------------------------- *)
Units == {"d", "h", "m", "s"}

UnitSeconds(u) ==
    CASE u = "d" -> 86400
      [] u = "h" -> 3600
      [] u = "m" -> 60
      [] u = "s" -> 1

\* the number that a sequence of digits writes
RECURSIVE DigitsValue(_)
DigitsValue(d) ==
    IF d = <<>> THEN 0
    ELSE DigitsValue(SubSeq(d, 1, Len(d) - 1)) * 10 + DigitVal(d[Len(d)])

\* the longest run of digits that ends right before byte i
RunBefore(s, i) ==
    SubSeq(s, SetMin({j \in 1..i : \A k \in j..(i - 1) : isdigit(s[k])}), i - 1)

\* the digits between the unit letter before byte i (or the start) and byte i
DigitsSinceUnit(s, i) ==
    LET p == SetMax({0} \cup {j \in 1..(i - 1) : s[j] \in Units})
    IN  SelectSeq(SubSeq(s, p + 1, i - 1), isdigit)

\* the sum over the unit letters of the first i bytes of s
RECURSIVE DtmsClaimed(_, _)
DtmsClaimed(s, i) ==
    IF i = 0 THEN 0
    ELSE DtmsClaimed(s, i - 1)
         + (IF s[i] \in Units THEN DigitsValue(RunBefore(s, i)) * UnitSeconds(s[i]) ELSE 0)

RECURSIVE DtmsIgnoring(_, _)
DtmsIgnoring(s, i) ==
    IF i = 0 THEN 0
    ELSE DtmsIgnoring(s, i - 1)
         + (IF s[i] \in Units THEN DigitsValue(DigitsSinceUnit(s, i)) * UnitSeconds(s[i]) ELSE 0)

(* C10 as stated: p_dtms returns the sum, over the digit runs that are     *)
(* immediately followed by d, h, m or s, of the run's value times 86400,   *)
(* 3600, 60 or 1; other characters are ignored and the digits of a run     *)
(* that no unit letter ends never contribute.                              *)
C10_DigitRunsBeforeUnits ==
    mpOut.f = "p_dtms" => mpOut.v = DtmsClaimed(mpTok, Len(mpTok))

(* C10 amended: p_dtms returns the sum, over the unit letters d, h, m, s   *)
(* of the token, of the value that all the digits between the previous     *)
(* unit letter (or the start) and this one write, taken together, times    *)
(* 86400, 3600, 60 or 1; other characters are ignored, also between two    *)
(* digits, and only the digits after the last unit letter are discarded.   *)
C10_DigitsSinceLastUnit ==
    mpOut.f = "p_dtms" => mpOut.v = DtmsIgnoring(mpTok, Len(mpTok))

\* C10 witness: "1h2m3s" has been converted to 3723
C10_Witness == mpOut.f = "p_dtms" /\ mpTok = EX_1H2M3S /\ mpOut.v = 3723

(* ----------------------------- float texts ---------------------------- *)
\* where the digits of s begin: after one leading '-'
NumberStart(s) == IF s # <<>> /\ s[1] = "-" THEN 2 ELSE 1

\* the places of the '.' characters of s from byte lo on
Dots(s, lo) == {j \in lo..Len(s) : s[j] = "."}

\* the first byte from NumberStart on that is neither a digit nor a '.', or Len(s) + 1
NumberEnd(s) ==
    SetMin({Len(s) + 1} \cup {j \in NumberStart(s)..Len(s) : ~isdigit(s[j]) /\ s[j] # "."})

\* the byte at which a second '.' stands, or Len(s) + 1
SecondDot(s) ==
    LET D == Dots(s, NumberStart(s))
    IN  IF D = {} \/ D = {SetMin(D)} THEN Len(s) + 1 ELSE SetMin(D \ {SetMin(D)})

\* the number written by the bytes of s before byte e: the digits before the first
\* '.' and, as the fraction, all the digits after it
NumberBefore(s, e) ==
    LET lo == NumberStart(s)
        D == {j \in Dots(s, lo) : j < e}
        dot == IF D = {} THEN e ELSE SetMin(D)
        int == SubSeq(s, lo, dot - 1)
        frc == SelectSeq(SubSeq(s, dot + 1, e - 1), isdigit)
        one == <<"1">> \o [j \in 1..Len(frc) |-> "0"]
        mag == (DigitsValue(int) * Scale) + ((DigitsValue(frc) * Scale) \div DigitsValue(one))
    IN  F(IF lo = 2 THEN 0 - mag ELSE mag)

(* C11 as stated: p_float reads one optional leading '-', digits, at most  *)
(* one '.', digits, and stops at the first other character, a second '.'   *)
(* included: the result is the number written by that longest well-formed  *)
(* prefix, and 0 for an empty or malformed token.                          *)
C11_WellFormedPrefix ==
    mpOut.f = "p_float"
       => mpOut.v = NumberBefore(mpTok, SetMin({NumberEnd(mpTok), SecondDot(mpTok)}))

(* C11 amended: p_float reads one optional leading '-', then digits and    *)
(* '.' characters, and stops at the first character that is neither; a     *)
(* second or later '.' does not stop it and is skipped, the digits after   *)
(* it continue the fraction.  The result is the number written by the      *)
(* text read, and 0 for an empty token or one that starts with another     *)
(* character.                                                              *)
C11_DotsSkipped ==
    mpOut.f = "p_float" => mpOut.v = NumberBefore(mpTok, NumberEnd(mpTok))

\* C11 witness: "-3.50xyz" has been converted to -3.5
C11_Witness == mpOut.f = "p_float" /\ mpTok = EX_FLOAT /\ mpOut.v = F(0 - 3500)

\* the callback has been given the message msg in this call
Warned(msg) == \E i \in 1..Len(cbLog) : cbLog[i].msg = msg

(* C12: the header has the line ";thumbnail: data:image/png;base64," if    *)
(* and only if a thumbnail was captured, that is exactly when the warning  *)
(* that no thumbnail was found has not been raised; a thumbnail block      *)
(* without an end marker or without data gives the warning and no line.    *)
C12_ThumbnailLineIffCaptured ==
    pc = "body" => (Occurs(hdrOut, HDR_THUMBNAIL) # {} <=> ~Warned("MSGT_WARN_NO_THUMBNAIL"))

\* how often the event e is in the log s
Count(s, e) == Cardinality({i \in 1..Len(s) : s[i] = e})

\* a library call of this call failed for a reason outside the program
Faulted == Count(ioLog, "fault") > 0

\* the original thumbnail block was captured, and the build removes it
BlockCaptured == featRemove /\ origThumbnail.start # NULL /\ origThumbnail.length # 0

(* C13: with the removal of the original thumbnail built in, whenever a    *)
(* thumbnail block was captured the rewrite succeeds, wherever the block   *)
(* lies, and the output is as long as the header plus the input less the   *)
(* block.                                                                  *)
C13_RemovalSucceeds ==
    pc = "done" /\ BlockCaptured /\ wopened /\ ~Faulted
        => res = 1 /\ Len(file) = Len(hdrOut) + Len(file0) - origThumbnail.length

\* the events e among the first n of the log
Before(n, e) == Count(SubSeq(ioLog, 1, n), e)

\* every fclose is of a handle that is open, every free of a buffer that is allocated
ReleasedOnce ==
    \A n \in 1..Len(ioLog) :
        /\ ioLog[n] = "fclose" => Before(n - 1, "fopen") = Before(n - 1, "fclose") + 1
        /\ ioLog[n] = "free" => Before(n - 1, "malloc") = Before(n - 1, "free") + 1

\* the messages of fatal errors that the callback got
ErrorsTold == {i \in 1..Len(cbLog) : ~IsWarn(cbLog[i])}

(* C14: on every way out of a call each file handle that was opened has    *)
(* been closed exactly once and the input buffer, if allocated, has been   *)
(* freed exactly once; the buffer is allocated and not yet freed wherever  *)
(* it is read; a fatal error is told to the callback exactly once, as the  *)
(* last message, and the result is 0 whatever the callback answers.        *)
C14_ResourcesReleased ==
    /\ pc \in {"lex", "warn", "header", "body"} => bufAlloc /\ Count(ioLog, "free") = 0
    /\ pc = "done" =>
          /\ ReleasedOnce
          /\ Count(ioLog, "fclose") = Count(ioLog, "fopen")
          /\ Count(ioLog, "free") = Count(ioLog, "malloc")
          /\ fp = "NULL" /\ ~bufAlloc
          /\ Faulted => ErrorsTold # {}
          /\ ErrorsTold # {} => ErrorsTold = {Len(cbLog)} /\ res = 0

\* a write of the header failed, the callback answered 1, and all was released
C14_Witness ==
    /\ pc = "done" /\ res = 0
    /\ ioLog = <<"fopen", "malloc", "fclose", "fopen", "fault", "fclose", "free">>
    /\ FatalError /\ LastTold.ret = 1

(* -------------------- what a G line says, by its text ------------------- *)
\* the loop is at the first byte after a line that began with 'G'
AfterGLine ==
    /\ pc = "lex" /\ state = "ST_LINE_START" /\ it = lineStart /\ it > 1
    /\ inputBuf[it - 1] = "\n"
    /\ inputBuf[LineBegin(inputBuf, it - 1)] = "G"

\* the characters of a number that follow place j
NumberAfter(j) ==
    LET e == SetMin({k \in (j + 1)..(inputLen + 1) :
                        k = inputLen + 1 \/ (~isdigit(inputBuf[k]) /\ inputBuf[k] \notin {".", "-"})})
    IN  [start |-> j + 1, length |-> e - (j + 1)]

\* the command number written on the line that ended before it
LineCode == GCODE(CharG, p_uint(inputBuf, NumberAfter(LineBegin(inputBuf, it - 1))))

\* the value written after each parameter letter of that line, NAN without the letter
LinePar ==
    [a \in Params |->
        LET S == {j \in LineBegin(inputBuf, it - 1)..(it - 1) : inputBuf[j] = a}
        IN  IF S = {} THEN NAN ELSE p_float(inputBuf, NumberAfter(SetMax(S)))]

\* the line that ended before it has a parameter letter right after a number
PackedLine ==
    \E j \in (LineBegin(inputBuf, it - 1) + 1)..(it - 1) :
        inputBuf[j] \in Params /\ isdigit(inputBuf[j - 1])

(* C15: a parameter letter ends the open token and has it converted before *)
(* the next one is opened: at the end of a G line the command code and the *)
(* X, Y, Z, E values are those written on the line, with or without spaces *)
(* before the letters ('G1X1Y2E1' as 'G1 X1 Y2 E1').                       *)
C15_LetterClosesToken == AfterGLine => code = LineCode /\ par = LinePar

(* --------------------- the bounding box, step by step ------------------- *)
\* byte i is the newline that ends a comment whose text is LAYER_CHANGE
LayerChangeEnds(i) ==
    /\ inputBuf[i] = "\n"
    /\ LET c == CommentStart(inputBuf, i)
       IN  /\ c # 0
           /\ TokText(inputBuf, Trimmed(inputBuf, c + 1, i - 1)) = MARK_LAYER_CHANGE

\* byte i ends the first such comment of the file
FirstLayerChange(i) == LayerChangeEnds(i) /\ \A j \in 1..(i - 1) : ~LayerChangeEnds(j)

\* no minimum is higher and no maximum is lower after the step
BoxWidens == \A a \in Axes : FLe(bmin'[a], bmin[a]) /\ FLe(bmax[a], bmax'[a])

\* the step ends a G line whose command switches the positioning mode, or is a
\* linear move without a positive E
NoExtrusionStep ==
    /\ state = "ST_GCODE" /\ ch \in {"\n", ";"}
    /\ \/ code' \in {GCODE(CharG, 90), GCODE(CharG, 91)}
       \/ /\ code' \in {GCODE(CharG, 0), GCODE(CharG, 1)}
          /\ ~(IS_SET(par'["E"]) /\ FGt(par'["E"], F(0)))

(* C16: in every step of the pass no minimum of the box increases and no   *)
(* maximum decreases, except in the one step that reads the newline ending *)
(* the first comment whose text is LAYER_CHANGE, which sets all six values *)
(* to the sentinels; later LAYER_CHANGE comments, the commands G90 and G91 *)
(* and moves that do not extrude leave the box as it is.                   *)
C16_BoxMonotone ==
    [][pc = "lex" /\ pc' = "lex" =>
          IF FirstLayerChange(it)
          THEN bmin' = Sentinel(PINF) /\ bmax' = Sentinel(NINF)
          ELSE /\ BoxWidens
               /\ LayerChangeEnds(it) \/ NoExtrusionStep => bmin' = bmin /\ bmax' = bmax]_vars

\* the box had been widened by 'G1 X1 E1' and the LAYER_CHANGE line after it set it back
C16_Witness ==
    /\ pc = "lex" /\ hasLayerChange = 1
    /\ inputBuf = G_EXT_X \o C_LAYER_CHANGE \o G_EXT_Y
    /\ it = Len(inputBuf) + 1
    /\ bmin["Y"] = F(2000) /\ bmax["Y"] = F(2000) /\ IsInf(bmin["X"]) /\ IsInf(bmax["X"])

(* ------------------------- the warnings of a call ----------------------- *)
\* the seven slots and their warnings, in the order of the checks
WarnOrder ==
    << <<"filamentUsed", "MSGT_WARN_NO_FILAMENT_USED">>,
       <<"layerHeight", "MSGT_WARN_NO_LAYER_HEIGHT">>,
       <<"estTime", "MSGT_WARN_NO_EST_TIME">>,
       <<"nozzleTemp0", "MSGT_WARN_NO_NOZZLE_TEMP">>,
       <<"plateTemp", "MSGT_WARN_NO_PLATE_TEMP">>,
       <<"printSpeed", "MSGT_WARN_NO_PRINT_SPEED">>,
       <<"thumbnail", "MSGT_WARN_NO_THUMBNAIL">> >>

\* the warnings due for the first k slots: one for each that holds no bytes
RECURSIVE WarningsDue(_)
WarningsDue(k) ==
    IF k = 0 THEN <<>>
    ELSE WarningsDue(k - 1)
         \o (IF slot[WarnOrder[k][1]].length = 0 THEN <<WarnOrder[k][2]>> ELSE <<>>)

\* the warnings the callback got, in the order it got them
WarningsTold ==
    LET W == SelectSeq(cbLog, IsWarn) IN [i \in 1..Len(W) |-> W[i].msg]

\* every warning but the last was answered with 1
AnsweredGoOn(last) ==
    \A i \in 1..Len(cbLog) : IsWarn(cbLog[i]) /\ (last => i < Len(cbLog)) => cbLog[i].ret = 1

(* C17: the callback gets the warnings after the pass and before the file  *)
(* is opened for writing: one for each of the seven slots that is empty,   *)
(* in the fixed order, none for a filled slot; an answer other than 1 ends *)
(* the call with no later warning; no warning comes once the file is open  *)
(* for writing.                                                            *)
C17_WarningProtocol ==
    /\ pc \in {"open", "alloc", "read", "lex"} => cbLog = <<>>
    /\ pc = "warn" => WarningsTold = WarningsDue(wi - 1) /\ AnsweredGoOn(FALSE)
    /\ pc \in {"create", "header", "body"} \/ (pc = "done" /\ wopened) =>
          WarningsTold = WarningsDue(Len(WarnOrder)) /\ AnsweredGoOn(FALSE)
    /\ pc = "done" /\ AbortedByCallback =>
          /\ ~wopened /\ AnsweredGoOn(TRUE)
          /\ \E k \in 1..Len(WarnOrder) :
                WarningsTold = WarningsDue(k) /\ LastTold.msg = WarnOrder[k][2]
    /\ \A i \in 1..Len(cbLog) : IsWarn(cbLog[i]) => cbLog[i].at = "warn"

\* two slots were filled, five warnings were answered with 1, the file is about to be opened
C17_Witness ==
    /\ pc = "create"
    /\ slot["layerHeight"].length > 0 /\ slot["printSpeed"].length > 0
    /\ WarningsTold = <<"MSGT_WARN_NO_FILAMENT_USED", "MSGT_WARN_NO_EST_TIME",
                        "MSGT_WARN_NO_NOZZLE_TEMP", "MSGT_WARN_NO_PLATE_TEMP",
                        "MSGT_WARN_NO_THUMBNAIL">>

(* C18: in a rewritten file the value of ';file_total_lines:' is the       *)
(* number of lines of that file: the 24 fixed header lines, one more for   *)
(* each of the thumbnail line and the nozzle_1_temperature line that is    *)
(* written, and the lines of the body as written; that is 1 + the number   *)
(* of newline bytes of the rewritten file.                                 *)
C18_TotalLinesCounted ==
    pc = "done" /\ res = 1 /\ wopened =>
        /\ FieldText(file, HDR_LINES) = FmtUInt(1 + Count(file, "\n"))
        /\ Count(file, "\n") =
              HEADER_LINES + Cardinality(Occurs(hdrOut, HDR_THUMBNAIL))
              + Cardinality(Occurs(hdrOut, HDR_NOZZLE1))
              + Count(SubSeq(file, Len(hdrOut) + 1, Len(file)), "\n")

(* C19: the pass cannot fail.  Every step of it reads the next byte, from  *)
(* the first to the last, so there are at most inputLen steps; no step     *)
(* tells the callback anything; in every step taken in the state           *)
(* ST_PARAMETER_VALUE a value slot is selected; and the pass ends only at  *)
(* the end of the buffer or with result 1 at the marker of an already      *)
(* converted file.                                                         *)
C19_PassCannotFail ==
    [][pc = "lex" =>
          /\ cbLog = <<>> /\ cbLog' = <<>> /\ ~ub'
          /\ it <= inputLen /\ state = "ST_PARAMETER_VALUE" => valueToken # "NULL"
          /\ \/ pc' = "lex" /\ it <= inputLen /\ it' = it + 1
             \/ pc' = "warn" /\ it = inputLen + 1 /\ it' = it
             \/ pc' = "done" /\ res' = 1 /\ it <= inputLen /\ MarkerReadAt(inputBuf, it)]_vars

\* the pass is over after steps in ST_PARAMETER_VALUE that filled both nozzle slots
C19_Witness ==
    /\ pc = "warn" /\ wi = 1 /\ it = inputLen + 1 /\ cbLog = <<>>
    /\ slot["nozzleTemp0"].length > 0 /\ slot["nozzleTemp1"].length > 0

\* what the switch at the end of a G line does for the command code c
Acted(c) ==
    IF c \in {GCODE(CharG, 0), GCODE(CharG, 1)} THEN "linear move"
    ELSE IF c = GCODE(CharG, 90) THEN "absolute"
    ELSE IF c = GCODE(CharG, 91) THEN "relative"
    ELSE "nothing"

(* C20: what is done when a G line ends (a linear move, the switch to      *)
(* absolute or to relative positioning, or nothing) is what the command    *)
(* number written on that line stands for; neither a code left from an     *)
(* earlier line nor the initial value of code decides it.                  *)
C20_DispatchByOwnLine ==
    [][pc = "lex" /\ state = "ST_GCODE" /\ it <= inputLen /\ ch = "\n" =>
          LET c == GCODE(CharG, p_uint(inputBuf, NumberAfter(LineBegin(inputBuf, it))))
          IN  /\ Acted(code') = Acted(c)
              /\ Acted(c) = "absolute" => isAbsPos' = 1 /\ pos' = pos
              /\ Acted(c) = "relative" => isAbsPos' = 0 /\ pos' = pos
              /\ Acted(c) = "nothing" => isAbsPos' = isAbsPos /\ pos' = pos]_vars

(* C21: at every step of the pass, for each axis by itself, the pair       *)
(* (min, max) of the box is the sentinel pair (+inf, -inf) or has          *)
(* min <= max, whatever the moves were: absolute or relative, and also on  *)
(* an axis whose coordinate is not set.                                    *)
C21_PairOrderedInPass ==
    pc = "lex" => \A a \in Axes : IsSentinel(a) \/ FLe(bmin[a], bmax[a])

\* a relative extruding move on X, whose coordinate is not set, after an extruding move on Y
C21_Witness ==
    /\ pc = "lex" /\ it = inputLen + 1
    /\ inputBuf = G_EXT_Y \o G_REL \o G_EXT_X
    /\ isAbsPos = 0 /\ ~IS_SET(pos["X"]) /\ IS_SET(par["X"]) /\ prevExt = 1
    /\ IsSentinel("X") /\ bmin["Y"] = F(2 * Scale) /\ bmax["Y"] = F(2 * Scale)

(* C22: a call on an empty file that can be opened returns 1; the callback *)
(* is not invoked, no buffer is allocated, the file is not opened for      *)
(* writing: it stays empty and no header is written.                       *)
C22_EmptyFileUntouched ==
    calls > 0 /\ file0 = <<>> =>
        /\ pc \in {"open", "done"}
        /\ file = <<>> /\ hdrOut = <<>> /\ ~wopened /\ ~bufAlloc
        /\ Count(ioLog, "malloc") = 0
        /\ pc = "done" /\ ~Faulted =>
              res = 1 /\ cbLog = <<>> /\ ioLog = <<"fopen", "fclose">>

\* the call on an empty file is over: opened for reading, closed, result 1
C22_Witness ==
    /\ pc = "done" /\ calls > 0 /\ file0 = <<>> /\ file = <<>>
    /\ res = 1 /\ cbLog = <<>> /\ ioLog = <<"fopen", "fclose">>

====
